---- MODULE Spec2Model ----
(***************************************************************************)
(* A model of the ITGlue MCP server: the JSON:API codec and the response   *)
(* normaliser of ITGlueClient, the tool handlers built on them, and the    *)
(* session map of the HTTP mode.                                           *)
(*                                                                         *)
(* Conventions of the translation:                                         *)
(*  - a JavaScript string that the code inspects or rewrites character by  *)
(*    character (an attribute key) is a sequence of tokens, separators     *)
(*    ("-", "_") being tokens of their own; other strings are TLA+ strings.*)
(*  - an optional JavaScript value is tagged: Undefined, Null or Num(n) /  *)
(*    Str(s), so that `x !== undefined`, `x ?? y` and truthiness are       *)
(*    computed as the code computes them.                                  *)
(*  - a JavaScript object with dynamic keys is a function from its keys;   *)
(*    where the code depends on insertion order (Object.entries) the       *)
(*    object is a sequence of <<key, value>> pairs with distinct keys.     *)
(*  - a rendered text is kept as the structure it prints, so that what a   *)
(*    handler reports can be read off its result.                          *)
(***************************************************************************)
EXTENDS Integers, Sequences, FiniteSets, TLC

VARIABLES
    pc,        \* position of the tool handler: "idle", "await", "done"
    tool,      \* the tool whose handler is running
    params,    \* the validated parameters of the invocation
    upstream,  \* what the client would answer: [root |-> reply, folder |-> reply]
    calls,     \* the client calls issued so far in this invocation, in call order
    result,    \* the value the handler returned
    cpc,       \* position of one ITGlueClient method call: "idle", "http", "done"
    creq,      \* the method call: [op, path, params]
    cresp,     \* what the HTTP layer answered: an envelope or a rejection
    cout,      \* its outcome: [ok |-> TRUE, value |-> v] or [ok |-> FALSE, error |-> e]
    fn,        \* the exported helper function being applied, "none" between applications
    arg,       \* its arguments
    ret,       \* its return value
    sessions,  \* the Map of runHttp: its entries in insertion order, a deleted entry left empty
    transports,\* the transports created so far, each with the server connected to it
    exchange,  \* the latest request to /mcp that a route handler answered or passed on
    shutdowns, \* the shutdown routines started by a signal, each with its iterator
    process    \* "running" until process.exit, then "exited"

hvars == <<pc, tool, params, upstream, calls, result>>
cvars == <<cpc, creq, cresp, cout>>
pvars == <<fn, arg, ret>>
svars == <<sessions, transports, exchange, shutdowns, process>>
vars == <<pc, tool, params, upstream, calls, result, cpc, creq, cresp, cout, fn, arg, ret,
          sessions, transports, exchange, shutdowns, process>>

(***************************************************************************)
(* Bounds                                                                  *)
(***************************************************************************)
MaxDocs == 2      \* longest data array of one mocked getMany reply
MaxItems == 2     \* longest data array of one HTTP envelope
MaxAttributes == 2   \* most attributes of one resource or request
MaxKeyLen == 3    \* longest attribute key, in tokens
MaxOver == 2      \* how far a text's length lies from CHARACTER_LIMIT, either side
MaxFragments == 2 \* most pieces an HTML text is put together from
MaxSessions == 2  \* most transports created by initialize requests

(***************************************************************************)
(* JavaScript values                                                       *)
(***************************************************************************)
Undefined == [t |-> "undefined"]
Null == [t |-> "null"]
Num(n) == [t |-> "number", v |-> n]
Str(s) == [t |-> "string", v |-> s]
Bool(b) == [t |-> "boolean", v |-> b]
\* a decoded record where null may stand instead (T | null)
Obj(o) == [t |-> "object", v |-> o]
\* an array where undefined may stand instead
Arr(elems) == [t |-> "array", v |-> elems]

\* x ?? y
Coalesce(x, y) == IF x = Undefined \/ x = Null THEN y ELSE x

\* if (x) ...
Truthy(x) ==
    /\ x # Undefined
    /\ x # Null
    /\ (x.t = "number" => x.v # 0)
    /\ (x.t = "string" => x.v # "")
    /\ (x.t = "boolean" => x.v)

\* obj[k] = v
Put(obj, k, v) == [x \in (DOMAIN obj) \cup {k} |-> IF x = k THEN v ELSE obj[x]]

\* { ...a, ...b }
Spread(a, b) ==
    [x \in (DOMAIN a) \cup (DOMAIN b) |-> IF x \in DOMAIN b THEN b[x] ELSE a[x]]

EmptyObject == [x \in {} |-> Undefined]

(***************************************************************************)
(* JSON:API helpers                                                        *)
(***************************************************************************)
\* key.replace("-", "_"): only the first hyphen is rewritten
kebabToSnakeFirstOnly(key) ==
    [i \in DOMAIN key |->
        IF key[i] = "-" /\ (\A j \in 1..(i - 1) : key[j] # "-") THEN "_" ELSE key[i]]

\* key.replace("_", "-"): only the first underscore is rewritten
snakeToKebabFirstOnly(key) ==
    [i \in DOMAIN key |->
        IF key[i] = "_" /\ (\A j \in 1..(i - 1) : key[j] # "_") THEN "-" ELSE key[i]]

kebabToSnake(key) == [i \in DOMAIN key |-> IF key[i] = "-" THEN "_" ELSE key[i]]

snakeToKebab(key) == [i \in DOMAIN key |-> IF key[i] = "_" THEN "-" ELSE key[i]]

IdKey == <<"id">>
TypeKey == <<"type">>

RECURSIVE AssignAttributes(_, _, _)
AssignAttributes(obj, attributes, i) ==
    IF i > Len(attributes) THEN obj
    ELSE AssignAttributes(
             Put(obj, kebabToSnake(attributes[i][1]), attributes[i][2]),
             attributes, i + 1)

deserializeResource(resource) ==
    AssignAttributes(
        Put(Put(EmptyObject, IdKey, resource.id), TypeKey, resource.type),
        resource.attributes, 1)

RECURSIVE AssignTruthy(_, _, _)
\* the loop of serializeRequest with `if (value)` for `if (value !== undefined)`
AssignTruthy(obj, attributes, i) ==
    IF i > Len(attributes) THEN obj
    ELSE AssignTruthy(
             IF Truthy(attributes[i][2])
             THEN Put(obj, snakeToKebab(attributes[i][1]), attributes[i][2])
             ELSE obj,
             attributes, i + 1)

RECURSIVE AssignDefined(_, _, _)
\* kebabAttributes after the entries i.. of attributes have been visited
AssignDefined(obj, attributes, i) ==
    IF i > Len(attributes) THEN obj
    ELSE AssignDefined(
             IF attributes[i][2] # Undefined
             THEN Put(obj, snakeToKebab(attributes[i][1]), attributes[i][2])
             ELSE obj,
             attributes, i + 1)

serializeRequest(type, attributes, id) ==
    LET kebabAttributes == AssignDefined(EmptyObject, attributes, 1)
    IN  [ data |-> IF Truthy(id)
                   THEN [type |-> type, attributes |-> kebabAttributes, id |-> id]
                   ELSE [type |-> type, attributes |-> kebabAttributes] ]

\* `filter[${snakeToKebab(key)}]`
FilterKey(key) == <<"filter[">> \o snakeToKebab(key) \o <<"]">>

RECURSIVE AssignFilters(_, _, _)
AssignFilters(obj, filters, i) ==
    IF i > Len(filters) THEN obj
    ELSE AssignFilters(
             IF filters[i][2] # Undefined
             THEN Put(obj, FilterKey(filters[i][1]), filters[i][2])
             ELSE obj,
             filters, i + 1)

buildFilterParams(filters) == AssignFilters(EmptyObject, filters, 1)

PageNumberKey == <<"page[number]">>
PageSizeKey == <<"page[size]">>
SortKey == <<"sort">>
FolderFilterKey == <<"filter[document-folder-id][ne]">>

buildPaginationParams(pageNumber, pageSize) ==
    Put(Put(EmptyObject, PageNumberKey, Num(pageNumber)), PageSizeKey, Num(pageSize))

(***************************************************************************)
(* Thrown values and handleApiError                                        *)
(***************************************************************************)
\* new Error(message)
PlainError(message) ==
    [class |-> "Error", message |-> message, response |-> Undefined, code |-> Undefined]

\* an AxiosError; response is Undefined or [t |-> "object", status, data]
AxiosErr(message, response, code) ==
    [class |-> "AxiosError", message |-> message, response |-> response, code |-> code]

\* a thrown value that is no Error; message holds String(value)
ThrownValue(text) ==
    [class |-> "value", message |-> text, response |-> Undefined, code |-> Undefined]

HttpResponse(status, data) == [t |-> "object", status |-> status, data |-> data]
ErrorBody(errors) == [t |-> "object", errors |-> errors]
ErrorEntry(title, detail) == [t |-> "object", title |-> title, detail |-> detail]

\* error.response?.status
ResponseStatus(error) ==
    IF error.response = Undefined THEN Undefined ELSE error.response.status

\* data?.errors?.[0]
FirstErrorEntry(error) ==
    IF error.response = Undefined THEN Undefined
    ELSE IF error.response.data = Undefined THEN Undefined
    ELSE IF error.response.data.errors = Undefined THEN Undefined
    ELSE IF Len(error.response.data.errors.v) = 0 THEN Undefined
    ELSE error.response.data.errors.v[1]

\* the title preferred to the detail
ErrorDetailTitleFirst(error) ==
    LET e == FirstErrorEntry(error)
    IN  IF e = Undefined THEN Undefined ELSE Coalesce(e.title, e.detail)

\* data?.errors?.[0]?.detail ?? data?.errors?.[0]?.title
ErrorDetail(error) ==
    LET e == FirstErrorEntry(error)
    IN  IF e = Undefined THEN Undefined ELSE Coalesce(e.detail, e.title)

ErrorSuffix(error) ==
    LET detail == ErrorDetail(error)
    IN  IF Truthy(detail) THEN <<" ", detail.v>> ELSE << >>

\* the switch with `status > 500` for `status >= 500`
StatusMessageAbove500(status, suffix) ==
    CASE status = 400 -> <<"Error: Bad request.">> \o suffix \o <<" Check your parameters.">>
      [] status = 401 -> <<"Error: Authentication failed. Verify your ITGLUE_API_KEY is valid and not revoked.">>
      [] status = 403 -> <<"Error: Permission denied.">> \o suffix
                           \o <<" Your API key may not have access to this resource.">>
      [] status = 404 -> <<"Error: Resource not found. Verify the ID is correct.">>
      [] status = 415 -> <<"Error: Unsupported media type. This is likely a bug in the MCP server.">>
      [] status = 422 -> <<"Error: Validation failed.">> \o suffix
      [] status = 429 -> <<"Error: Rate limit exceeded (3000 requests per 5 minutes). Wait before retrying.">>
      [] OTHER ->
           IF status > 500
           THEN <<"Error: ITGlue server error (", ToString(status), "). Try again later.">>
           ELSE <<"Error: API request failed with status ", ToString(status), ".">> \o suffix

StatusMessage(status, suffix) ==
    CASE status = 400 -> <<"Error: Bad request.">> \o suffix \o <<" Check your parameters.">>
      [] status = 401 -> <<"Error: Authentication failed. Verify your ITGLUE_API_KEY is valid and not revoked.">>
      [] status = 403 -> <<"Error: Permission denied.">> \o suffix
                           \o <<" Your API key may not have access to this resource.">>
      [] status = 404 -> <<"Error: Resource not found. Verify the ID is correct.">>
      [] status = 415 -> <<"Error: Unsupported media type. This is likely a bug in the MCP server.">>
      [] status = 422 -> <<"Error: Validation failed.">> \o suffix
      [] status = 429 -> <<"Error: Rate limit exceeded (3000 requests per 5 minutes). Wait before retrying.">>
      [] OTHER ->
           IF status >= 500
           THEN <<"Error: ITGlue server error (", ToString(status), "). Try again later.">>
           ELSE <<"Error: API request failed with status ", ToString(status), ".">> \o suffix

\* the last return without its 'Error: ' prefix
UnexpectedMessageNoPrefix(error) == <<"Unexpected error: ", error.message>>

UnexpectedMessage(error) == <<"Error: Unexpected error: ", error.message>>

handleApiError(error) ==
    IF error.class = "AxiosError"
    THEN LET status == ResponseStatus(error)
         IN  IF Truthy(status) THEN StatusMessage(status.v, ErrorSuffix(error))
             ELSE IF error.code = Str("ECONNABORTED")
                  THEN <<"Error: Request timed out. Please try again.">>
             ELSE IF error.code = Str("ECONNREFUSED")
                  THEN <<"Error: Could not connect to ITGlue API. Check your base URL and network connectivity.">>
             ELSE UnexpectedMessage(error)
    ELSE UnexpectedMessage(error)

(***************************************************************************)
(* Response formatting                                                     *)
(***************************************************************************)
\* the lines of the footer, each a sequence of tokens
(***************************************************************************)
(* stripHtml: a chain of String.replace calls, each one pass over the text *)
(***************************************************************************)
\* the character of str at position i
Ch(str, i) == SubSeq(str, i, i)

UpperLetters == "ABCDEFGHIJKLMNOPQRSTUVWXYZ"
LowerLetters == "abcdefghijklmnopqrstuvwxyz"

\* the i flag: letters compare by their lower case
Lower(c) ==
    IF \E k \in 1..Len(UpperLetters) : Ch(UpperLetters, k) = c
    THEN Ch(LowerLetters, CHOOSE k \in 1..Len(UpperLetters) : Ch(UpperLetters, k) = c)
    ELSE c

LiteralAt(str, i, lit) ==
    i + Len(lit) - 1 <= Len(str) /\ SubSeq(str, i, i + Len(lit) - 1) = lit

LiteralAtIgnoreCase(str, i, lit) ==
    /\ i + Len(lit) - 1 <= Len(str)
    /\ \A k \in 1..Len(lit) : Lower(Ch(str, i + k - 1)) = Ch(lit, k)

\* the first position from i on whose character is not in chars; Len(str) + 1 if none
FirstNotIn(str, i, chars) ==
    IF \E j \in i..Len(str) : Ch(str, j) \notin chars
    THEN CHOOSE j \in i..Len(str) :
            Ch(str, j) \notin chars /\ \A k \in i..(j - 1) : Ch(str, k) \in chars
    ELSE Len(str) + 1

\* the first position from i on that holds '>'; 0 if none
NextGt(str, i) ==
    IF \E j \in i..Len(str) : Ch(str, j) = ">"
    THEN CHOOSE j \in i..Len(str) :
            Ch(str, j) = ">" /\ \A k \in i..(j - 1) : Ch(str, k) # ">"
    ELSE 0

\* \s, \d, [0-9a-fA-F] and [1-6]
WhiteSpace == {" ", "\n", "\t", "\r"}
DecimalDigits == {"0", "1", "2", "3", "4", "5", "6", "7", "8", "9"}
HexDigits == DecimalDigits \cup {"a", "b", "c", "d", "e", "f", "A", "B", "C", "D", "E", "F"}
HeadingLevels == {"1", "2", "3", "4", "5", "6"}

DigitValue(c) ==
    CASE c = "0" -> 0 [] c = "1" -> 1 [] c = "2" -> 2 [] c = "3" -> 3 [] c = "4" -> 4
      [] c = "5" -> 5 [] c = "6" -> 6 [] c = "7" -> 7 [] c = "8" -> 8 [] c = "9" -> 9
      [] Lower(c) = "a" -> 10 [] Lower(c) = "b" -> 11 [] Lower(c) = "c" -> 12
      [] Lower(c) = "d" -> 13 [] Lower(c) = "e" -> 14 [] Lower(c) = "f" -> 15

RECURSIVE ParseInt(_, _)
\* Number(dec) and parseInt(hex, 16) of a string of digits
ParseInt(digits, radix) ==
    IF Len(digits) = 0 THEN 0
    ELSE ParseInt(SubSeq(digits, 1, Len(digits) - 1), radix) * radix
            + DigitValue(Ch(digits, Len(digits)))

\* String.fromCharCode, for the codes of the characters the texts are written in
fromCharCode(code) ==
    CASE code = 32 -> " " [] code = 35 -> "#" [] code = 38 -> "&" [] code = 39 -> "'"
      [] code = 59 -> ";" [] code = 60 -> "<" [] code = 62 -> ">" [] code = 65 -> "A"
      [] code = 97 -> "a" [] code = 108 -> "l" [] code = 116 -> "t"

RECURSIVE Repeated(_, _)
\* str.repeat(n)
Repeated(str, n) == IF n = 0 THEN "" ELSE str \o Repeated(str, n - 1)

\* one String.replace(regex, replacement) call of stripHtml
Pass(kind, from, to) == [kind |-> kind, from |-> from, to |-> to]

\* the replace calls of stripHtml, in the order of the chain; a character outside
\* ASCII is written as its code point
Passes ==
    << Pass("br", "<br", "\n"),
       Pass("literal_i", "</p>", "\n\n"),
       Pass("literal_i", "</li>", "\n"),
       Pass("open", "<li", "- "),
       Pass("heading_close", "</h", "\n"),
       Pass("heading_open", "<h", " "),
       Pass("tag", "<", ""),
       Pass("literal", "&amp;", "&"),
       Pass("literal", "&lt;", "<"),
       Pass("literal", "&gt;", ">"),
       Pass("literal", "&quot;", "\""),
       Pass("literal", "&#39;", "'"),
       Pass("literal", "&nbsp;", " "),
       Pass("literal", "&mdash;", "(U+2014)"),
       Pass("literal", "&ndash;", "(U+2013)"),
       Pass("literal", "&hellip;", "(U+2026)"),
       Pass("literal", "&rsquo;", "'"),
       Pass("literal", "&lsquo;", "'"),
       Pass("literal", "&rdquo;", "(U+201D)"),
       Pass("literal", "&ldquo;", "(U+201C)"),
       Pass("literal", "&copy;", "(U+00A9)"),
       Pass("literal", "&trade;", "(U+2122)"),
       Pass("decimal", "&#", ""),
       Pass("hex", "&#x", ""),
       Pass("newlines", "\n", "\n\n") >>

\* how many characters the regex of the pass matches at position i; 0 for no match
MatchLength(pass, str, i) ==
    CASE pass.kind = "literal" ->
           IF LiteralAt(str, i, pass.from) THEN Len(pass.from) ELSE 0
      [] pass.kind = "literal_i" ->
           IF LiteralAtIgnoreCase(str, i, pass.from) THEN Len(pass.from) ELSE 0
      [] pass.kind = "br" ->
           \* <br\s*\/?>
           IF LiteralAtIgnoreCase(str, i, pass.from)
           THEN LET j == FirstNotIn(str, i + 3, WhiteSpace)
                    k == IF j <= Len(str) /\ Ch(str, j) = "/" THEN j + 1 ELSE j
                IN  IF k <= Len(str) /\ Ch(str, k) = ">" THEN k - i + 1 ELSE 0
           ELSE 0
      [] pass.kind = "open" ->
           \* <li[^>]*>
           IF LiteralAtIgnoreCase(str, i, pass.from) /\ NextGt(str, i + 3) # 0
           THEN NextGt(str, i + 3) - i + 1 ELSE 0
      [] pass.kind = "heading_close" ->
           \* <\/h[1-6]>
           IF /\ LiteralAtIgnoreCase(str, i, pass.from)
              /\ i + 4 <= Len(str)
              /\ Ch(str, i + 3) \in HeadingLevels
              /\ Ch(str, i + 4) = ">"
           THEN 5 ELSE 0
      [] pass.kind = "heading_open" ->
           \* <h([1-6])[^>]*>
           IF /\ LiteralAtIgnoreCase(str, i, pass.from)
              /\ i + 2 <= Len(str)
              /\ Ch(str, i + 2) \in HeadingLevels
              /\ NextGt(str, i + 3) # 0
           THEN NextGt(str, i + 3) - i + 1 ELSE 0
      [] pass.kind = "tag" ->
           \* <[^>]+>
           IF /\ Ch(str, i) = "<"
              /\ i + 1 <= Len(str)
              /\ Ch(str, i + 1) # ">"
              /\ NextGt(str, i + 2) # 0
           THEN NextGt(str, i + 2) - i + 1 ELSE 0
      [] pass.kind = "decimal" ->
           \* &#(\d+);
           IF LiteralAt(str, i, pass.from)
           THEN LET j == FirstNotIn(str, i + 2, DecimalDigits)
                IN  IF j > i + 2 /\ j <= Len(str) /\ Ch(str, j) = ";" THEN j - i + 1 ELSE 0
           ELSE 0
      [] pass.kind = "hex" ->
           \* &#x([0-9a-fA-F]+);
           IF LiteralAt(str, i, pass.from)
           THEN LET j == FirstNotIn(str, i + 3, HexDigits)
                IN  IF j > i + 3 /\ j <= Len(str) /\ Ch(str, j) = ";" THEN j - i + 1 ELSE 0
           ELSE 0
      [] pass.kind = "newlines" ->
           \* \n{3,}
           LET j == FirstNotIn(str, i, {"\n"})
           IN  IF j - i >= 3 THEN j - i ELSE 0

\* what the pass puts in place of the n characters it matched at position i
Replacement(pass, str, i, n) ==
    CASE pass.kind = "heading_open" ->
           Repeated("#", ParseInt(Ch(str, i + 2), 10)) \o pass.to
      [] pass.kind = "decimal" ->
           fromCharCode(ParseInt(SubSeq(str, i + 2, i + n - 2), 10))
      [] pass.kind = "hex" ->
           fromCharCode(ParseInt(SubSeq(str, i + 3, i + n - 2), 16))
      [] OTHER -> pass.to

RECURSIVE ReplaceFrom(_, _, _)
\* str.replace(regex, replacement) with the g flag, from position i on: the matches
\* are found left to right in str and never in what replaced an earlier match
ReplaceFrom(pass, str, i) ==
    IF i > Len(str) THEN ""
    ELSE LET n == MatchLength(pass, str, i)
         IN  IF n > 0
             THEN Replacement(pass, str, i, n) \o ReplaceFrom(pass, str, i + n)
             ELSE Ch(str, i) \o ReplaceFrom(pass, str, i + 1)

RECURSIVE ApplyPasses(_, _, _)
\* the chain from its k-th replace call on
ApplyPasses(str, passes, k) ==
    IF k > Len(passes) THEN str
    ELSE ApplyPasses(ReplaceFrom(passes[k], str, 1), passes, k + 1)

\* str.trim()
Trim(str) ==
    IF \A j \in 1..Len(str) : Ch(str, j) \in WhiteSpace THEN ""
    ELSE LET first == FirstNotIn(str, 1, WhiteSpace)
             last == CHOOSE j \in 1..Len(str) :
                        Ch(str, j) \notin WhiteSpace
                        /\ \A k \in (j + 1)..Len(str) : Ch(str, k) \in WhiteSpace
         IN  SubSeq(str, first, last)

stripHtml(html) == Trim(ApplyPasses(html, Passes, 1))

CHARACTER_LIMIT == 25000

\* CHARACTER_LIMIT.toLocaleString() in the locale the process runs under
LimitToLocaleString(locale) ==
    CASE locale = "en-US" -> "25,000"
      [] locale = "de-DE" -> "25.000"
      [] locale = "fr-FR" -> "25 000"

DefaultTruncationHint == "Use filters or pagination to narrow results."

TruncationMessage(hintText, locale) ==
    "\n\n---\n[Response truncated at " \o LimitToLocaleString(locale)
        \o " characters. " \o hintText \o "]"

\* truncateIfNeeded with `<` for `<=`
truncateIfNeededStrict(text, hint, locale) ==
    IF Len(text) < CHARACTER_LIMIT THEN text
    ELSE SubSeq(text, 1, CHARACTER_LIMIT)
            \o (IF Truthy(hint) THEN TruncationMessage(hint.v, locale)
                ELSE TruncationMessage(DefaultTruncationHint, locale))

\* text and the result are strings, character for character
truncateIfNeeded(text, hint, locale) ==
    IF Len(text) <= CHARACTER_LIMIT THEN text
    ELSE LET truncated == SubSeq(text, 1, CHARACTER_LIMIT)
             message == IF Truthy(hint)
                        THEN TruncationMessage(hint.v, locale)
                        ELSE TruncationMessage(DefaultTruncationHint, locale)
         IN  truncated \o message

\* paginationFooter whose hint names the current page
paginationFooterNamesCurrentPage(totalCount, pageNumber, hasMore) ==
    <<  <<"---">>,
        <<"Page ", ToString(pageNumber), " | ", ToString(totalCount), " total results">> >>
    \o (IF hasMore
        THEN << <<"More results available -- use page_number: ", ToString(pageNumber),
                  " to see next page">> >>
        ELSE << >>)

paginationFooter(totalCount, pageNumber, hasMore) ==
    <<  <<"---">>,
        <<"Page ", ToString(pageNumber), " | ", ToString(totalCount), " total results">> >>
    \o (IF hasMore
        THEN << <<"More results available -- use page_number: ", ToString(pageNumber + 1),
                  " to see next page">> >>
        ELSE << >>)

(***************************************************************************)
(* ITGlueClient: the normalisation of one HTTP response                    *)
(***************************************************************************)
\* response.data.data: one resource object or an array of them
SingleData(resource) == [isArray |-> FALSE, elems |-> <<resource>>]
ArrayData(resources) == [isArray |-> TRUE, elems |-> resources]

Meta(total, current, next) ==
    [t |-> "object", total_count |-> total, current_page |-> current, next_page |-> next]

\* meta?.[field]
MetaField(meta, field) == IF meta = Undefined THEN Undefined ELSE meta[field]

Outcome(value) == [ok |-> TRUE, value |-> value]
Thrown(error) == [ok |-> FALSE, error |-> error]

\* `API returned empty array for ${operation} operation`, for the two operations
\* the client passes
EmptyArrayMessage(operation) ==
    CASE operation = "create" -> "API returned empty array for create operation"
      [] operation = "update" -> "API returned empty array for update operation"

deserializeOne(data, operation) ==
    IF data.isArray
    THEN IF Len(data.elems) = 0
         THEN Thrown(PlainError(EmptyArrayMessage(operation)))
         ELSE Outcome(deserializeResource(data.elems[1]))
    ELSE Outcome(deserializeResource(data.elems[1]))

deserializeOptional(data) ==
    IF data = Undefined \/ data = Null THEN Null
    ELSE IF data.isArray
         THEN IF Len(data.elems) = 0 THEN Null
              ELSE Obj(deserializeResource(data.elems[1]))
    ELSE Obj(deserializeResource(data.elems[1]))

\* response.data?.data of postAction / patchAction
OptionalData(body) == IF body = Null THEN Undefined ELSE body.data

\* post that reports an empty array as a failed update
postOutcomeNamesUpdate(envelope) == deserializeOne(envelope.data, "update")

postOutcome(envelope) == deserializeOne(envelope.data, "create")

patchOutcome(envelope) == deserializeOne(envelope.data, "update")

\* postAction / patchAction that unwrap their response as post does
actionOutcomeAsMutation(body) ==
    IF OptionalData(body) = Undefined \/ OptionalData(body) = Null
    THEN Outcome(Null)
    ELSE IF OptionalData(body).isArray /\ Len(OptionalData(body).elems) = 0
         THEN Thrown(PlainError(EmptyArrayMessage("create")))
         ELSE Outcome(Obj(deserializeResource(OptionalData(body).elems[1])))

actionOutcome(body) == Outcome(deserializeOptional(OptionalData(body)))

\* getOne that unwraps a one-element array instead of rejecting it
getOneOutcomeUnwrapSingleton(envelope) ==
    IF envelope.data.isArray /\ Len(envelope.data.elems) # 1
    THEN Thrown(PlainError("Expected single resource but received array"))
    ELSE Outcome(deserializeResource(envelope.data.elems[1]))

getOneOutcome(envelope) ==
    IF envelope.data.isArray
    THEN Thrown(PlainError("Expected single resource but received array"))
    ELSE Outcome(deserializeResource(envelope.data.elems[1]))

\* params?.["page[size]"]
RequestedPageSize(qparams) ==
    IF qparams = Undefined THEN Undefined
    ELSE IF PageSizeKey \in DOMAIN qparams THEN qparams[PageSizeKey]
    ELSE Undefined

\* getMany that tests next-page against undefined instead of null
getManyResultHasMoreUndefinedTest(envelope, qparams) ==
    LET data == envelope.data
        items == IF data.isArray THEN data.elems ELSE <<data.elems[1]>>
        meta == envelope.meta
        totalCount == Coalesce(MetaField(meta, "total_count"), Num(Len(items)))
        currentPage == Coalesce(MetaField(meta, "current_page"), Num(1))
        nextPage == Coalesce(MetaField(meta, "next_page"), Null)
        pageSize == IF Truthy(RequestedPageSize(qparams))
                    THEN RequestedPageSize(qparams).v
                    ELSE Len(items)
    IN  [ data |-> [i \in DOMAIN items |-> deserializeResource(items[i])],
          total_count |-> totalCount.v,
          page_number |-> currentPage.v,
          page_size |-> pageSize,
          has_more |-> MetaField(meta, "next_page") # Undefined,
          next_page |-> nextPage ]

\* getMany that does not wrap a single resource object into an array
getManyResultNoWrap(envelope, qparams) ==
    LET data == envelope.data
        items == IF data.isArray THEN data.elems ELSE << >>
        meta == envelope.meta
        totalCount == Coalesce(MetaField(meta, "total_count"), Num(Len(items)))
        currentPage == Coalesce(MetaField(meta, "current_page"), Num(1))
        nextPage == Coalesce(MetaField(meta, "next_page"), Null)
        pageSize == IF Truthy(RequestedPageSize(qparams))
                    THEN RequestedPageSize(qparams).v
                    ELSE Len(items)
    IN  [ data |-> [i \in DOMAIN items |-> deserializeResource(items[i])],
          total_count |-> totalCount.v,
          page_number |-> currentPage.v,
          page_size |-> pageSize,
          has_more |-> nextPage # Null,
          next_page |-> nextPage ]

getManyResult(envelope, qparams) ==
    LET data == envelope.data
        items == IF data.isArray THEN data.elems ELSE <<data.elems[1]>>
        meta == envelope.meta
        totalCount == Coalesce(MetaField(meta, "total_count"), Num(Len(items)))
        currentPage == Coalesce(MetaField(meta, "current_page"), Num(1))
        nextPage == Coalesce(MetaField(meta, "next_page"), Null)
        pageSize == IF Truthy(RequestedPageSize(qparams))
                    THEN RequestedPageSize(qparams).v
                    ELSE Len(items)
    IN  [ data |-> [i \in DOMAIN items |-> deserializeResource(items[i])],
          total_count |-> totalCount.v,
          page_number |-> currentPage.v,
          page_size |-> pageSize,
          has_more |-> nextPage # Null,
          next_page |-> nextPage ]

(***************************************************************************)
(* Tool handlers: what they are invoked with and what the client answers   *)
(***************************************************************************)
ListTools == {"itglue_list_organizations", "itglue_list_documents",
              "itglue_list_document_sections"}

ResponseFormats == {"markdown", "json"}
PageNumbers == {1, 2}
PageSizes == {50}

\* the optional filters and sort of one invocation: none, a name, or all of them
FilterChoices ==
    { [filter_name |-> Undefined, filter_id |-> Undefined, sort |-> Undefined],
      [filter_name |-> Str("runbook"), filter_id |-> Undefined, sort |-> Undefined],
      [filter_name |-> Str("runbook"), filter_id |-> Num(5), sort |-> Str("-updated_at")] }

ListDocumentsInputs ==
    { [organization_id |-> 123, filter_name |-> f.filter_name, filter_id |-> f.filter_id,
       sort |-> f.sort, page_number |-> n, page_size |-> z, response_format |-> fmt] :
        f \in FilterChoices, n \in PageNumbers, z \in PageSizes, fmt \in ResponseFormats }

ListOrganizationsInputs ==
    { [filter_name |-> f.filter_name, filter_id |-> f.filter_id,
       filter_organization_type_id |-> t, filter_organization_status_id |-> Undefined,
       sort |-> f.sort, page_number |-> n, page_size |-> z, response_format |-> fmt] :
        f \in FilterChoices, t \in {Undefined, Num(1)}, n \in PageNumbers, z \in PageSizes,
        fmt \in ResponseFormats }

ListDocumentSectionsInputs ==
    { [document_id |-> 456, page_number |-> n, page_size |-> z, response_format |-> fmt] :
        n \in PageNumbers, z \in PageSizes, fmt \in ResponseFormats }

\* the records a mocked client returns: { id, name }
Record(id, name) == [id |-> id, name |-> name]
RecordIds == {"1", "2", "3"}

SeqsUpTo(S, n) == UNION { [1..k -> S] : k \in 0..n }

\* one page of a listing never holds the same id twice
DistinctSeqsUpTo(S, n) ==
    { s \in SeqsUpTo(S, n) : \A i, j \in DOMAIN s : s[i] = s[j] => i = j }

\* the PaginatedResult values getMany may answer a request for page n of size z with
PaginatedResults(name, n, z) ==
    { [ data |-> [i \in DOMAIN ids |-> Record(ids[i], name)],
        total_count |-> Len(ids) + extra,
        page_number |-> n,
        page_size |-> z,
        has_more |-> more,
        next_page |-> IF more THEN Num(n + 1) ELSE Null ] :
        ids \in DistinctSeqsUpTo(RecordIds, MaxDocs), extra \in {0, 5}, more \in BOOLEAN }

\* the failures a client call may reject with
UpstreamErrors ==
    { AxiosErr("Request failed with status code 404",
               HttpResponse(Num(404), Undefined), Str("ERR_BAD_REQUEST")),
      AxiosErr("connect ECONNREFUSED", Undefined, Str("ECONNREFUSED")) }

Replies(name, n, z) ==
    { Outcome(r) : r \in PaginatedResults(name, n, z) } \cup { Thrown(e) : e \in UpstreamErrors }

GetManyCall(path, qparams) == [method |-> "getMany", path |-> path, params |-> qparams]

\* the answer of the client to one call: the folder query is the one that carries
\* filter[document-folder-id][ne]
ReplyTo(call) ==
    IF FolderFilterKey \in DOMAIN call.params THEN upstream.folder ELSE upstream.root

(***************************************************************************)
(* Tool handlers: rendering                                                *)
(***************************************************************************)
PlainText(tokens) == [fmt |-> "plain", body |-> tokens]
\* JSON.stringify(value, null, 2): the text determines the value, which is kept
JsonText(value) == [fmt |-> "json", body |-> value]
MarkdownText(title, items, footer) ==
    [fmt |-> "markdown", body |-> [title |-> title, items |-> items, footer |-> footer]]

\* { content: [{ type: "text", text }] }
ToolResult(text) == [content |-> <<[type |-> "text", text |-> text]>>]
\* { content: [{ type: "text", text }], isError: true }
ToolError(text) == [content |-> <<[type |-> "text", text |-> text]>>, isError |-> TRUE]

\* the lines printed for one record that has an id and a name and nothing else
formatDocumentMarkdown(doc) ==
    << <<"## ", doc.name, " (ID: ", doc.id, ")">>,
       <<"- **Published**: ", "No">>,
       <<"- **Updated**: ", "undefined">>,
       << >> >>

formatOrganizationMarkdown(org) ==
    << <<"## ", org.name, " (ID: ", org.id, ")">>,
       <<"- **Updated**: ", "undefined">>,
       << >> >>

formatSectionMarkdown(section) ==
    << <<"### ", "Unknown", " Section (ID: ", section.id, ", Position: ", "-", ")">>,
       <<"*No content*">>,
       <<"- **Updated**: ", "undefined">>,
       << >> >>

FormatItem(t, item) ==
    CASE t = "itglue_list_organizations" -> formatOrganizationMarkdown(item)
      [] t = "itglue_list_documents" -> formatDocumentMarkdown(item)
      [] OTHER -> formatSectionMarkdown(item)

ListTitle(t) ==
    CASE t = "itglue_list_organizations" -> "# Organizations ("
      [] t = "itglue_list_documents" -> "# Documents ("
      [] OTHER -> "# Document Sections ("

NoResultsText(t) ==
    CASE t = "itglue_list_organizations" ->
             <<"No organizations found matching the specified filters.">>
      [] t = "itglue_list_documents" ->
             <<"No documents found matching the specified filters.">>
      [] OTHER -> <<"No sections found in this document.">>

\* ListResult with an empty listing reported as a failure
ListResultEmptyIsError(t, res, fmt) ==
    IF Len(res.data) = 0 THEN ToolError(PlainText(NoResultsText(t)))
    ELSE IF fmt = "json" THEN ToolResult(JsonText(res))
    ELSE ToolResult(MarkdownText(
             <<ListTitle(t), ToString(res.total_count), " total)">>,
             [i \in DOMAIN res.data |-> FormatItem(t, res.data[i])],
             paginationFooter(res.total_count, res.page_number, res.has_more)))

\* what a list handler returns once its getMany has resolved with res
ListResult(t, res, fmt) ==
    IF Len(res.data) = 0 THEN ToolResult(PlainText(NoResultsText(t)))
    ELSE IF fmt = "json" THEN ToolResult(JsonText(res))
    ELSE ToolResult(MarkdownText(
             <<ListTitle(t), ToString(res.total_count), " total)">>,
             [i \in DOMAIN res.data |-> FormatItem(t, res.data[i])],
             paginationFooter(res.total_count, res.page_number, res.has_more)))

\* the catch block without its error flag
CaughtResultNoFlag(error) == ToolResult(PlainText(handleApiError(error)))

\* the catch block of every handler
CaughtResult(error) == ToolError(PlainText(handleApiError(error)))

(***************************************************************************)
(* Tool handlers: the query each one builds                                *)
(***************************************************************************)
WithSort(qparams, sort) == IF Truthy(sort) THEN Put(qparams, SortKey, sort) ELSE qparams

ListDocumentsQuery(p) ==
    WithSort(
        Spread(buildPaginationParams(p.page_number, p.page_size),
               buildFilterParams(<< <<(<<"name">>), p.filter_name>>,
                                    <<(<<"id">>), p.filter_id>> >>)),
        p.sort)

ListDocumentsPath(p) ==
    <<"/organizations/", ToString(p.organization_id), "/relationships/documents">>

ListOrganizationsQuery(p) ==
    WithSort(
        Spread(buildPaginationParams(p.page_number, p.page_size),
               buildFilterParams(
                   << <<(<<"name">>), p.filter_name>>,
                      <<(<<"id">>), p.filter_id>>,
                      <<(<<"organization", "_", "type", "_", "id">>),
                        p.filter_organization_type_id>>,
                      <<(<<"organization", "_", "status", "_", "id">>),
                        p.filter_organization_status_id>> >>)),
        p.sort)

sectionsPath(documentId) == <<"/documents/", ToString(documentId), "/relationships/sections">>

(***************************************************************************)
(* Tool handlers: the state machine of one invocation                      *)
(***************************************************************************)
(***************************************************************************)
(* Tool handlers that read or change one record                            *)
(***************************************************************************)
RecordTools ==
    { "itglue_get_organization", "itglue_get_document", "itglue_create_document",
      "itglue_update_document", "itglue_publish_document", "itglue_delete_documents",
      "itglue_get_document_section", "itglue_create_document_section",
      "itglue_update_document_section", "itglue_delete_document_section" }

\* what a client call may reject with: an HTTP failure, a connection failure, or
\* the client's own complaint about the envelope
ClientErrors ==
    UpstreamErrors \cup { PlainError("Expected single resource but received array") }

Rejections == { Thrown(e) : e \in ClientErrors }

\* answers of getOne, post and patch
RecordReplies(name) == { Outcome(Record(id, name)) : id \in RecordIds } \cup Rejections

\* answers of patchAction: null or the decoded record
ActionReplies(name) == { Outcome(Null), Outcome(Obj(Record("1", name))) } \cup Rejections

\* answers of delete: Promise<void>
VoidReplies == { Outcome(Undefined) } \cup Rejections

\* the sections fetch of itglue_get_document asks for one page of 1000
SectionsPageSize == {1000}

ClientCall(method, path, argument) == [method |-> method, path |-> path, params |-> argument]

\* the answer of the mocked client to the i-th call of an invocation
Answer(i) == IF i = 1 THEN upstream.root ELSE upstream.folder

\* sectionsPath(documentId, sectionId) with a section id
sectionPath(documentId, sectionId) ==
    sectionsPath(documentId) \o <<"/", ToString(sectionId)>>

\* the entries a handler assigns: those of its optional parameters that are defined
DefinedEntries(entries) == SelectSeq(entries, LAMBDA e : e[2] # Undefined)

serializeDeleteBody(type, ids) ==
    [ data |-> [i \in DOMAIN ids |-> [type |-> type, attributes |-> [id |-> ids[i]]]] ]

\* lines.join("\n"): the lines are kept apart
LinesText(lines) == [fmt |-> "lines", body |-> lines]

RECURSIVE JoinIds(_, _)
\* ids.join(", ") from the i-th id on
JoinIds(ids, i) ==
    IF i > Len(ids) THEN << >>
    ELSE <<ToString(ids[i])>> \o (IF i < Len(ids) THEN <<", ">> ELSE << >>)
            \o JoinIds(ids, i + 1)

RECURSIVE SectionLines(_, _)
\* the lines itglue_get_document prints for the sections from the i-th on; a
\* section that has an id and a name and nothing else
SectionLines(sections, i) ==
    IF i > Len(sections) THEN << >>
    ELSE << <<"### ", "Unknown", " Section (ID: ", sections[i].id, ", Position: ", "-", ")">>,
            <<"*No content*">>,
            << >> >> \o SectionLines(sections, i + 1)

GetOrganizationInputs ==
    { [organization_id |-> 123, response_format |-> fmt] : fmt \in ResponseFormats }

GetDocumentInputs ==
    { [document_id |-> 456, response_format |-> fmt] : fmt \in ResponseFormats }

CreateDocumentInputs ==
    { [organization_id |-> 123, name |-> "Runbook", response_format |-> fmt] :
        fmt \in ResponseFormats }

UpdateDocumentInputs ==
    { [document_id |-> 456, name |-> n, response_format |-> fmt] :
        n \in {Undefined, Str("Renamed")}, fmt \in ResponseFormats }

DeleteDocumentsInputs == { [document_ids |-> ids] : ids \in { <<456>>, <<456, 457>> } }

SectionInputs ==
    { [document_id |-> 456, section_id |-> 789, response_format |-> fmt] :
        fmt \in ResponseFormats }

CreateDocumentSectionInputs ==
    { [document_id |-> 456, section_type |-> "Text", content |-> c, level |-> Undefined,
       duration |-> Undefined, reset_count |-> Undefined, sort |-> so,
       response_format |-> fmt] :
        c \in {Undefined, Str("<p>Hello</p>")}, so \in {Undefined, Num(0)},
        fmt \in ResponseFormats }

UpdateDocumentSectionInputs ==
    { [document_id |-> 456, section_id |-> 789, content |-> c, level |-> Undefined,
       duration |-> Undefined, reset_count |-> Undefined, sort |-> so,
       response_format |-> fmt] :
        c \in {Undefined, Str("<p>Hello</p>")}, so \in {Undefined, Num(0)},
        fmt \in ResponseFormats }

\* the optional attributes of a section, in the order the handlers assign them
SectionAttributes(p) ==
    DefinedEntries(<< <<(<<"content">>), p.content>>,
                      <<(<<"level">>), p.level>>,
                      <<(<<"duration">>), p.duration>>,
                      <<(<<"reset", "_", "count">>), p.reset_count>>,
                      <<(<<"sort">>), p.sort>> >>)

\* itglue_get_document that fetches the document again where it should fetch the
\* sections
GetDocumentSectionsCallRefetch(p) ==
    ClientCall("getOne", <<"/documents/", ToString(p.document_id)>>, Undefined)

\* the second call of itglue_get_document
GetDocumentSectionsCall(p) ==
    ClientCall("getMany", sectionsPath(p.document_id),
               Put(EmptyObject, PageSizeKey, Num(1000)))

\* the first call of each handler
FirstCall(t, p) ==
    CASE t = "itglue_get_organization" ->
           ClientCall("getOne", <<"/organizations/", ToString(p.organization_id)>>, Undefined)
      [] t = "itglue_get_document" ->
           ClientCall("getOne", <<"/documents/", ToString(p.document_id)>>, Undefined)
      [] t = "itglue_create_document" ->
           ClientCall("post", <<"/documents">>,
               serializeRequest("documents",
                   << <<(<<"organization", "_", "id">>), Num(p.organization_id)>>,
                      <<(<<"name">>), Str(p.name)>> >>,
                   Undefined))
      [] t = "itglue_update_document" ->
           ClientCall("patch", <<"/documents/", ToString(p.document_id)>>,
               serializeRequest("documents",
                   DefinedEntries(<< <<(<<"name">>), p.name>> >>),
                   Str(ToString(p.document_id))))
      [] t = "itglue_publish_document" ->
           ClientCall("patchAction",
                      <<"/documents/", ToString(p.document_id), "/publish">>, Undefined)
      [] t = "itglue_delete_documents" ->
           ClientCall("delete", <<"/documents">>,
                      serializeDeleteBody("documents", p.document_ids))
      [] t = "itglue_get_document_section" ->
           ClientCall("getOne", sectionPath(p.document_id, p.section_id), Undefined)
      [] t = "itglue_create_document_section" ->
           ClientCall("post", sectionsPath(p.document_id),
               serializeRequest("document-sections",
                   << <<(<<"resource", "_", "type">>), Str("Document::" \o p.section_type)>> >>
                       \o SectionAttributes(p),
                   Undefined))
      [] t = "itglue_update_document_section" ->
           ClientCall("patch", sectionPath(p.document_id, p.section_id),
               serializeRequest("document-sections", SectionAttributes(p),
                                Str(ToString(p.section_id))))
      [] t = "itglue_delete_document_section" ->
           ClientCall("delete", sectionPath(p.document_id, p.section_id), Undefined)

\* what the markdown branch of each handler prints; the records have an id and a
\* name and nothing else, and the texts stay far below CHARACTER_LIMIT, where
\* truncateIfNeeded returns its argument; a backquote is written as a quote
MarkdownLines(t, p, first, second) ==
    CASE t = "itglue_get_organization" ->
           << <<"# ", first.name>>, << >>, <<"**ID**: ", first.id>>, << >>,
              <<"- **Created**: ", "undefined">>, <<"- **Updated**: ", "undefined">> >>
      [] t = "itglue_get_document" ->
           << <<"# ", first.name>>, << >>, <<"**ID**: ", first.id>>,
              <<"**Published**: ", "No">>, <<"**Updated**: ", "undefined">>, << >> >>
           \o (IF Len(second.data) = 0
               THEN << <<"*No sections in this document.*">> >>
               ELSE << <<"## Sections (", ToString(Len(second.data)), ")">>, << >> >>
                       \o SectionLines(second.data, 1))
      [] t = "itglue_create_document" ->
           << <<"# Document Created">>, << >>, <<"**ID**: ", first.id>>,
              <<"**Name**: ", first.name>>, <<"**Published**: No (draft)">>,
              <<"**Created**: ", "undefined">>, << >>, <<"Next steps:">>,
              <<"- Use 'itglue_create_document_section' to add content">>,
              <<"- Use 'itglue_publish_document' to publish when ready">> >>
      [] t = "itglue_update_document" ->
           << <<"Document updated successfully.">>, << >> >> \o formatDocumentMarkdown(first)
      [] t = "itglue_publish_document" ->
           << <<"Document ", ToString(p.document_id), " published successfully.">> >>
      [] t = "itglue_delete_documents" ->
           << <<"Successfully deleted ", ToString(Len(p.document_ids)), " document(s): ">>
                 \o JoinIds(p.document_ids, 1) >>
      [] t = "itglue_get_document_section" ->
           << <<"# ", "Unknown", " Section (ID: ", first.id, ")">>, << >>,
              <<"**Document ID**: ", "-">>, <<"**Position**: ", "-">>,
              <<"**Updated**: ", "undefined">>, << >>, <<"*No content*">>, << >> >>
      [] t = "itglue_create_document_section" ->
           << <<"# Section Created">>, << >>, <<"**ID**: ", first.id>>,
              <<"**Type**: ", "Unknown">>,
              <<"**Document ID**: ", ToString(p.document_id)>>,
              <<"**Position**: ", "-">>, <<"**Created**: ", "undefined">> >>
      [] t = "itglue_update_document_section" ->
           << <<"Section updated successfully.">>, << >> >> \o formatSectionMarkdown(first)
      [] t = "itglue_delete_document_section" ->
           << <<"Successfully deleted section ", ToString(p.section_id), ".">> >>

\* the value the JSON branch of a handler stringifies
JsonValue(t, p, first, second) ==
    CASE t = "itglue_get_document" ->
           [id |-> first.id, name |-> first.name, sections |-> second.data]
      [] t = "itglue_publish_document" ->
           [success |-> TRUE, document_id |-> p.document_id,
            message |-> "Document published successfully"]
      [] OTHER -> first

\* the delete handlers take no response_format
HasJsonBranch(t) ==
    t \notin {"itglue_delete_documents", "itglue_delete_document_section"}

\* what a handler returns once all its calls have resolved, with first and second
RecordResult(t, p, first, second) ==
    IF HasJsonBranch(t) /\ p.response_format = "json"
    THEN ToolResult(JsonText(JsonValue(t, p, first, second)))
    ELSE ToolResult(LinesText(MarkdownLines(t, p, first, second)))

(***************************************************************************)
(* HTTP mode: the session map of runHttp and the routes of /mcp            *)
(***************************************************************************)
\* a Map keeps its entries in insertion order; delete empties the entry in place
\* and an iterator that is under way steps over the emptied entries
MapEntry(key, value) == [key |-> key, transport |-> value, live |-> TRUE]

\* sessions.has(key)
Has(map, key) == \E i \in DOMAIN map : map[i].live /\ map[i].key = key

\* sessions.get(key)!.transport
Get(map, key) == map[CHOOSE i \in DOMAIN map : map[i].live /\ map[i].key = key].transport

\* sessions.set(key, { transport, server })
Set(map, key, value) ==
    IF Has(map, key)
    THEN [i \in DOMAIN map |->
            IF map[i].live /\ map[i].key = key THEN MapEntry(key, value) ELSE map[i]]
    ELSE Append(map, MapEntry(key, value))

\* sessions.delete(key)
Delete(map, key) ==
    [i \in DOMAIN map |->
        IF map[i].key = key THEN [map[i] EXCEPT !.live = FALSE] ELSE map[i]]

\* sessions.clear()
Clear(map) == [i \in DOMAIN map |-> [map[i] EXCEPT !.live = FALSE]]

\* an iterator that loses the entry behind a deleted one, as an index into an
\* array that deletion shifts would
NextEntrySkipping(map, position) ==
    LET from == IF position > 0 /\ ~map[position].live THEN position + 1 ELSE position
        later == { i \in DOMAIN map : i > from /\ map[i].live }
    IN  IF later = {} THEN 0 ELSE CHOOSE i \in later : \A j \in later : i <= j

\* for (const [, session] of sessions): the entry the iterator yields after the
\* one at position, 0 when it is done; entries appended meanwhile are yielded too
NextEntry(map, position) ==
    LET later == { i \in DOMAIN map : i > position /\ map[i].live }
    IN  IF later = {} THEN 0 ELSE CHOOSE i \in later : \A j \in later : i <= j

\* the transports that the map holds
Held(map) == { map[i].transport : i \in { j \in DOMAIN map : map[j].live } }

\* process.on("SIGINT", shutdown), process.on("SIGTERM", shutdown): the signals
\* that start a shutdown routine, each delivered at most once
Signals == {"SIGINT", "SIGTERM"}

\* randomUUID(): the id of the t-th transport, different from every other
randomUUID(t) == "session-" \o ToString(t)

\* req.headers["mcp-session-id"]: absent, empty, or an id that randomUUID gives
\* out, which is the id of no session before it is given out and after its
\* session is closed
SessionIdHeaders ==
    {Undefined, Str("")} \cup { Str(randomUUID(t)) : t \in 1..MaxSessions }

\* req.body: an initialize request or another JSON-RPC message
Bodies == {"initialize", "tools/list"}

isInitializeRequest(body) == body = "initialize"

\* a transport and the server connected to it, with what the request it was
\* created for was: one with a session id, one whose body is initialize
NewTransport(sessionId, body) ==
    [ sessionId |-> Undefined, closed |-> FALSE,
      request |-> [ withSessionId |-> Truthy(sessionId),
                    initialize |-> isInitializeRequest(body) ] ]

\* app.post("/mcp") that takes a request with an unknown session id for one
\* without a session id
PostRouteUnknownIsNew(sessionId, body, map) ==
    IF Truthy(sessionId) /\ Has(map, sessionId.v) THEN "transport"
    ELSE IF ~isInitializeRequest(body) THEN "badRequest"
    ELSE "initialize"

\* app.post("/mcp"): which of its four branches a request takes
PostRoute(sessionId, body, map) ==
    IF Truthy(sessionId) /\ Has(map, sessionId.v) THEN "transport"
    ELSE IF Truthy(sessionId) /\ ~Has(map, sessionId.v) THEN "notFound"
    ELSE IF ~isInitializeRequest(body) THEN "badRequest"
    ELSE "initialize"

\* app.get("/mcp") and app.delete("/mcp"): which of the two branches a request takes
SessionRoute(sessionId, map) ==
    IF ~Truthy(sessionId) \/ ~Has(map, sessionId.v) THEN "notFound" ELSE "transport"

\* res.status(code).json({ jsonrpc: "2.0", error: { code, message }, id: null })
JsonRpcError(status, code, message) ==
    [status |-> ToString(status), code |-> code, message |-> message]
SessionNotFound == JsonRpcError(404, -32000, "Session not found")
ExpectedInitialize == JsonRpcError(400, -32600, "Bad request: expected initialize request")

\* the route handler passed the request on: the answer is the transport's
ByTransport == [status |-> "transport's", code |-> 0, message |-> ""]
\* no answer yet: the route handler is at an await
Pending == [status |-> "pending", code |-> 0, message |-> ""]

\* transport.onclose that leaves the session in the map
oncloseKeepsSession(map, transport) == map

\* transport.onclose: const sid = transport.sessionId; if (sid) sessions.delete(sid)
onclose(map, transport) ==
    IF Truthy(transport.sessionId) THEN Delete(map, transport.sessionId.v) ELSE map

\* transport.close(): the transport is closed
Closed(all, t) == [all EXCEPT ![t].closed = TRUE]

\* what is kept of one request: the request, the answer, the transport it was
\* passed to (0: none), the number of transports it created, whether its session
\* id was a key of the map and whether the map is as it was
Exchange(method, sessionId, body, answer, reached, created, map) ==
    [ method |-> method, sessionId |-> sessionId, body |-> body, answer |-> answer,
      reached |-> reached, created |-> created,
      known |-> Truthy(sessionId) /\ Has(sessions, sessionId.v),
      mapUnchanged |-> map = sessions ]

NoExchange ==
    [ method |-> "none", sessionId |-> Undefined, body |-> "none", answer |-> Pending,
      reached |-> 0, created |-> 0, known |-> FALSE, mapUnchanged |-> TRUE ]

HttpIdle ==
    /\ sessions = << >>
    /\ transports = << >>
    /\ exchange = NoExchange
    /\ shutdowns = << >>
    /\ process = "running"

NoResult == [content |-> << >>]
NoUpstream == [root |-> Thrown(PlainError("unused")), folder |-> Thrown(PlainError("unused"))]

HandlerIdle ==
    /\ pc = "idle"
    /\ tool = "none"
    /\ params = EmptyObject
    /\ upstream = NoUpstream
    /\ calls = << >>
    /\ result = NoResult

ClientIdle ==
    /\ cpc = "idle"
    /\ creq = EmptyObject
    /\ cresp = EmptyObject
    /\ cout = EmptyObject

PureIdle ==
    /\ fn = "none"
    /\ arg = EmptyObject
    /\ ret = EmptyObject

Init == HandlerIdle /\ ClientIdle /\ PureIdle /\ HttpIdle

\* itglue_list_organizations up to its await of client.getMany
ListOrganizations ==
    /\ pc = "idle"
    /\ \E p \in ListOrganizationsInputs :
         \E r \in Replies("Org", p.page_number, p.page_size) :
            /\ params' = p
            /\ upstream' = [root |-> r, folder |-> r]
            /\ calls' = <<GetManyCall(<<"/organizations">>, ListOrganizationsQuery(p))>>
    /\ tool' = "itglue_list_organizations"
    /\ pc' = "await"
    /\ UNCHANGED <<result, cvars, pvars, svars>>

\* itglue_list_documents up to its await of client.getMany
ListDocuments ==
    /\ pc = "idle"
    /\ \E p \in ListDocumentsInputs :
         \E root \in Replies("RootDoc", p.page_number, p.page_size),
            folder \in Replies("FolderDoc", p.page_number, p.page_size) :
            /\ params' = p
            /\ upstream' = [root |-> root, folder |-> folder]
            /\ calls' = <<GetManyCall(ListDocumentsPath(p), ListDocumentsQuery(p))>>
    /\ tool' = "itglue_list_documents"
    /\ pc' = "await"
    /\ UNCHANGED <<result, cvars, pvars, svars>>

\* itglue_list_document_sections up to its await of client.getMany
ListDocumentSections ==
    /\ pc = "idle"
    /\ \E p \in ListDocumentSectionsInputs :
         \E r \in Replies("Section", p.page_number, p.page_size) :
            /\ params' = p
            /\ upstream' = [root |-> r, folder |-> r]
            /\ calls' = <<GetManyCall(sectionsPath(p.document_id),
                                      buildPaginationParams(p.page_number, p.page_size))>>
    /\ tool' = "itglue_list_document_sections"
    /\ pc' = "await"
    /\ UNCHANGED <<result, cvars, pvars, svars>>

\* the awaited getMany resolves: the rest of the try block of a list handler
ListResolved ==
    /\ pc = "await"
    /\ tool \in ListTools
    /\ ReplyTo(calls[Len(calls)]).ok
    /\ result' = ListResult(tool, ReplyTo(calls[Len(calls)]).value, params.response_format)
    /\ pc' = "done"
    /\ UNCHANGED <<tool, params, upstream, calls, cvars, pvars, svars>>

\* the awaited getMany rejects: the catch block
ListRejected ==
    /\ pc = "await"
    /\ tool \in ListTools
    /\ ~ReplyTo(calls[Len(calls)]).ok
    /\ result' = CaughtResult(ReplyTo(calls[Len(calls)]).error)
    /\ pc' = "done"
    /\ UNCHANGED <<tool, params, upstream, calls, cvars, pvars, svars>>

\* a handler of RecordTools up to the await of its first client call
StartRecordTool(t, inputs, firstReplies, secondReplies) ==
    /\ pc = "idle"
    /\ \E p \in inputs, first \in firstReplies, second \in secondReplies :
         /\ params' = p
         /\ upstream' = [root |-> first, folder |-> second]
         /\ calls' = <<FirstCall(t, p)>>
    /\ tool' = t
    /\ pc' = "await"
    /\ UNCHANGED <<result, cvars, pvars, svars>>

\* a handler with one client call is never asked for a second answer
NoSecond == { Thrown(PlainError("unused")) }

GetOrganization ==
    StartRecordTool("itglue_get_organization", GetOrganizationInputs,
                    RecordReplies("Org"), NoSecond)

GetDocument ==
    StartRecordTool("itglue_get_document", GetDocumentInputs, RecordReplies("Doc"),
                    Replies("Section", 1, 1000))

CreateDocument ==
    StartRecordTool("itglue_create_document", CreateDocumentInputs,
                    RecordReplies("Runbook"), NoSecond)

UpdateDocument ==
    StartRecordTool("itglue_update_document", UpdateDocumentInputs,
                    RecordReplies("Renamed"), NoSecond)

PublishDocument ==
    StartRecordTool("itglue_publish_document", GetDocumentInputs,
                    ActionReplies("Doc"), NoSecond)

DeleteDocuments ==
    StartRecordTool("itglue_delete_documents", DeleteDocumentsInputs, VoidReplies, NoSecond)

GetDocumentSection ==
    StartRecordTool("itglue_get_document_section", SectionInputs,
                    RecordReplies("Section"), NoSecond)

CreateDocumentSection ==
    StartRecordTool("itglue_create_document_section", CreateDocumentSectionInputs,
                    RecordReplies("Section"), NoSecond)

UpdateDocumentSection ==
    StartRecordTool("itglue_update_document_section", UpdateDocumentSectionInputs,
                    RecordReplies("Section"), NoSecond)

DeleteDocumentSection ==
    StartRecordTool("itglue_delete_document_section", SectionInputs, VoidReplies, NoSecond)

\* itglue_get_document: the document fetch resolves and the sections fetch is issued
GetDocumentFetched ==
    /\ pc = "await"
    /\ tool = "itglue_get_document"
    /\ Len(calls) = 1
    /\ Answer(1).ok
    /\ calls' = Append(calls, GetDocumentSectionsCall(params))
    /\ UNCHANGED <<pc, tool, params, upstream, result, cvars, pvars, svars>>

\* the last awaited call of a handler of RecordTools resolves: the rest of its try
\* block
RecordResolved ==
    /\ pc = "await"
    /\ tool \in RecordTools
    /\ (tool = "itglue_get_document" => Len(calls) = 2)
    /\ Answer(Len(calls)).ok
    /\ result' = RecordResult(tool, params, Answer(1).value, Answer(Len(calls)).value)
    /\ pc' = "done"
    /\ UNCHANGED <<tool, params, upstream, calls, cvars, pvars, svars>>

\* an awaited call of a handler of RecordTools rejects: the catch block
RecordRejected ==
    /\ pc = "await"
    /\ tool \in RecordTools
    /\ ~Answer(Len(calls)).ok
    /\ result' = CaughtResult(Answer(Len(calls)).error)
    /\ pc' = "done"
    /\ UNCHANGED <<tool, params, upstream, calls, cvars, pvars, svars>>

\* the result has been delivered; the server is ready for the next invocation
Return ==
    /\ pc = "done"
    /\ pc' = "idle"
    /\ tool' = "none"
    /\ params' = EmptyObject
    /\ upstream' = NoUpstream
    /\ calls' = << >>
    /\ result' = NoResult
    /\ UNCHANGED <<cvars, pvars, svars>>

Next ==
    \/ ListOrganizations
    \/ ListDocuments
    \/ ListDocumentSections
    \/ ListResolved
    \/ ListRejected
    \/ GetOrganization
    \/ GetDocument
    \/ CreateDocument
    \/ UpdateDocument
    \/ PublishDocument
    \/ DeleteDocuments
    \/ GetDocumentSection
    \/ CreateDocumentSection
    \/ UpdateDocumentSection
    \/ DeleteDocumentSection
    \/ GetDocumentFetched
    \/ RecordResolved
    \/ RecordRejected
    \/ Return

Spec == Init /\ [][Next]_vars

(***************************************************************************)
(* ITGlueClient: one method call over the HTTP layer                       *)
(***************************************************************************)
Resource(id, type, attributes) == [id |-> id, type |-> type, attributes |-> attributes]

\* wire resources: no attributes, plain and hyphenated attribute keys
WireResources ==
    { Resource("1", "organizations", << >>),
      Resource("2", "organizations",
               << <<(<<"name">>), "Acme">>, <<(<<"short", "-", "name">>), "acme">> >>),
      Resource("3", "documents",
               << <<(<<"organization", "-", "id">>), "100">> >>) }

MetaValues ==
    {Undefined} \cup
    { Meta(total, current, next) :
        total \in {Undefined, Num(50)},
        current \in {Undefined, Num(3)},
        next \in {Undefined, Null, Num(4)} }

Envelope(data, meta) == [data |-> data, meta |-> meta]

Envelopes ==
    { Envelope(d, m) :
        d \in { SingleData(r) : r \in WireResources }
              \cup { ArrayData(rs) : rs \in SeqsUpTo(WireResources, MaxItems) },
        m \in MetaValues }

\* the params argument of getMany: absent, without page[size], page[size] 25
QueryChoices ==
    { Undefined,
      Put(EmptyObject, PageNumberKey, Num(1)),
      buildPaginationParams(1, 25),
      buildPaginationParams(1, 0) }

\* what http.post / http.patch answer a create or update with
MutationEnvelopes ==
    { Envelope(d, Undefined) :
        d \in { SingleData(r) : r \in WireResources }
              \cup { ArrayData(rs) : rs \in SeqsUpTo(WireResources, MaxItems) } }

\* what http.post / http.patch answer an action with: no body, or a body whose
\* data is missing, null, a resource or an array
ActionBodies ==
    {Null} \cup { Envelope(Undefined, Undefined), Envelope(Null, Undefined) }
           \cup MutationEnvelopes

GetOps == {"getOne", "getMany"}
MutationOps == {"post", "patch"}
ActionOps == {"postAction", "patchAction"}

ResponsesFor(op) ==
    IF op \in GetOps THEN Envelopes
    ELSE IF op \in MutationOps THEN MutationEnvelopes
    ELSE ActionBodies

\* what the method makes of the response body
MethodOutcome(req, body) ==
    CASE req.op = "getOne" -> getOneOutcome(body)
      [] req.op = "getMany" -> Outcome(getManyResult(body, req.params))
      [] req.op = "post" -> postOutcome(body)
      [] req.op = "patch" -> patchOutcome(body)
      [] OTHER -> actionOutcome(body)

HttpErrors == UpstreamErrors

ClientRequest(op, path, qparams) == [op |-> op, path |-> path, params |-> qparams]

\* client.getOne(path) up to its await of http.get
GetOne ==
    /\ cpc = "idle"
    /\ creq' = ClientRequest("getOne", <<"/organizations/", "1">>, Undefined)
    /\ cpc' = "http"
    /\ UNCHANGED <<cresp, cout, hvars, pvars, svars>>

\* client.getMany(path, params) up to its await of http.get
GetMany ==
    /\ cpc = "idle"
    /\ \E q \in QueryChoices : creq' = ClientRequest("getMany", <<"/organizations">>, q)
    /\ cpc' = "http"
    /\ UNCHANGED <<cresp, cout, hvars, pvars, svars>>

\* client.post(path, body) up to its await of http.post
Post ==
    /\ cpc = "idle"
    /\ creq' = ClientRequest("post", <<"/documents">>,
                   serializeRequest("documents",
                       << <<(<<"organization", "_", "id">>), Num(123)>>,
                          <<(<<"name">>), Str("Runbook")>> >>,
                       Undefined))
    /\ cpc' = "http"
    /\ UNCHANGED <<cresp, cout, hvars, pvars, svars>>

\* client.patch(path, body) up to its await of http.patch
Patch ==
    /\ cpc = "idle"
    /\ creq' = ClientRequest("patch", <<"/documents/", "456">>,
                   serializeRequest("documents",
                       << <<(<<"name">>), Str("Renamed")>> >>, Str("456")))
    /\ cpc' = "http"
    /\ UNCHANGED <<cresp, cout, hvars, pvars, svars>>

\* client.postAction(path) up to its await of http.post
PostAction ==
    /\ cpc = "idle"
    /\ creq' = ClientRequest("postAction", <<"/documents/", "456", "/publish">>, Undefined)
    /\ cpc' = "http"
    /\ UNCHANGED <<cresp, cout, hvars, pvars, svars>>

\* client.patchAction(path) up to its await of http.patch
PatchAction ==
    /\ cpc = "idle"
    /\ creq' = ClientRequest("patchAction", <<"/documents/", "456", "/publish">>, Undefined)
    /\ cpc' = "http"
    /\ UNCHANGED <<cresp, cout, hvars, pvars, svars>>

\* the HTTP call resolves with a response body; the method normalises it and
\* returns or throws
HttpResolved ==
    /\ cpc = "http"
    /\ \E e \in ResponsesFor(creq.op) :
         /\ cresp' = Outcome(e)
         /\ cout' = MethodOutcome(creq, e)
    /\ cpc' = "done"
    /\ UNCHANGED <<creq, hvars, pvars, svars>>

\* http.get rejects; the rejection propagates out of the method
HttpRejected ==
    /\ cpc = "http"
    /\ \E e \in HttpErrors :
         /\ cresp' = Thrown(e)
         /\ cout' = Thrown(e)
    /\ cpc' = "done"
    /\ UNCHANGED <<creq, hvars, pvars, svars>>

ClientReturn ==
    /\ cpc = "done"
    /\ cpc' = "idle"
    /\ creq' = EmptyObject
    /\ cresp' = EmptyObject
    /\ cout' = EmptyObject
    /\ UNCHANGED <<hvars, pvars, svars>>

NextClient ==
    \/ GetOne
    \/ GetMany
    \/ Post
    \/ Patch
    \/ PostAction
    \/ PatchAction
    \/ HttpResolved
    \/ HttpRejected
    \/ ClientReturn

SpecClient == Init /\ [][NextClient]_vars

(***************************************************************************)
(* Properties of itglue_list_documents                                     *)
(***************************************************************************)
ListDocumentsDone == pc = "done" /\ tool = "itglue_list_documents"

BothQueriesSucceed == upstream.root.ok /\ upstream.folder.ok

HasIsError(r) == "isError" \in DOMAIN r

ResultText == result.content[1].text

\* the result prints a listing (not a message)
ShowsListing == ~HasIsError(result) /\ ResultText.fmt \in {"json", "markdown"}

RECURSIVE DedupById(_, _)
\* records of s whose id is not in seen, first occurrence kept
DedupById(s, seen) ==
    IF s = << >> THEN << >>
    ELSE IF Head(s).id \in seen THEN DedupById(Tail(s), seen)
    ELSE <<Head(s)>> \o DedupById(Tail(s), seen \cup {Head(s).id})

\* root records, then folder records, deduplicated by id
MergedData == DedupById(upstream.root.value.data \o upstream.folder.value.data, {})

\* the ids the result lists, in the order it lists them
ReportedIds ==
    IF ResultText.fmt = "json"
    THEN [i \in DOMAIN ResultText.body.data |-> ResultText.body.data[i].id]
    ELSE [i \in DOMAIN ResultText.body.items |-> ResultText.body.items[i][1][4]]

\* the names the result lists, in the order it lists them
ReportedNames ==
    IF ResultText.fmt = "json"
    THEN [i \in DOMAIN ResultText.body.data |-> ResultText.body.data[i].name]
    ELSE [i \in DOMAIN ResultText.body.items |-> ResultText.body.items[i][1][2]]

\* the total the result states
ReportedTotal ==
    IF ResultText.fmt = "json"
    THEN ToString(ResultText.body.total_count)
    ELSE ResultText.body.title[2]

\* whether the result says that more results exist
ReportedHasMore ==
    IF ResultText.fmt = "json"
    THEN ResultText.body.has_more
    ELSE Len(ResultText.body.footer) = 3

Range(s) == { s[i] : i \in DOMAIN s }

\* C1: every invocation of itglue_list_documents has issued exactly two getMany
\* calls when it produces its result, both against
\* /organizations/{organization_id}/relationships/documents.
C1_TwoQueriesSamePath ==
    ListDocumentsDone =>
        /\ Len(calls) = 2
        /\ \A i \in DOMAIN calls :
              /\ calls[i].method = "getMany"
              /\ calls[i].path = ListDocumentsPath(params)

\* C2: the two queries of one invocation carry the same page[number], page[size],
\* filter[name], filter[id] and sort, the second carries
\* filter[document-folder-id][ne] = "null" and the first does not carry it.
C2_QueriesDifferOnlyInFolderFilter ==
    ListDocumentsDone =>
        /\ Len(calls) >= 2
        /\ FolderFilterKey \notin DOMAIN calls[1].params
        /\ FolderFilterKey \in DOMAIN calls[2].params
        /\ calls[2].params[FolderFilterKey] = Str("null")
        /\ DOMAIN calls[2].params = (DOMAIN calls[1].params) \cup {FolderFilterKey}
        /\ \A k \in DOMAIN calls[1].params : calls[2].params[k] = calls[1].params[k]

\* C3: the data of the result is the root query's records followed by the folder
\* query's records with every record whose id was already seen removed: each id
\* returned by either query is listed exactly once, in first-sighting order.
C3_DataIsDedupedConcatenation ==
    (ListDocumentsDone /\ BothQueriesSucceed /\ MergedData # << >>) =>
        /\ ShowsListing
        /\ ReportedIds = [i \in DOMAIN MergedData |-> MergedData[i].id]
        /\ ReportedNames = [i \in DOMAIN MergedData |-> MergedData[i].name]

\* C4: the total_count reported is the sum of the total_count values of the two
\* sub-query results.
C4_TotalIsSum ==
    (ListDocumentsDone /\ BothQueriesSucceed /\ ShowsListing) =>
        ReportedTotal =
            ToString(upstream.root.value.total_count + upstream.folder.value.total_count)

\* C5: has_more is reported if and only if at least one of the two sub-query
\* results has has_more = true.
C5_HasMoreIsDisjunction ==
    (ListDocumentsDone /\ BothQueriesSucceed /\ ShowsListing) =>
        (ReportedHasMore <=>
            (upstream.root.value.has_more \/ upstream.folder.value.has_more))

\* C6: whichever sub-query completes first, the result lists the first query's
\* records and then the second query's: every id either query returned is listed,
\* and no id that only the second query returned is listed before an id the first
\* query returned.
C6_CallOrderNotCompletionOrder ==
    (ListDocumentsDone /\ BothQueriesSucceed /\ ShowsListing) =>
        LET rootIds == { upstream.root.value.data[i].id :
                            i \in DOMAIN upstream.root.value.data }
            folderIds == { upstream.folder.value.data[i].id :
                            i \in DOMAIN upstream.folder.value.data }
        IN  /\ Range(ReportedIds) = rootIds \cup folderIds
            /\ \A i, j \in DOMAIN ReportedIds :
                  (ReportedIds[i] \in rootIds /\ ReportedIds[j] \notin rootIds) => i < j

(***************************************************************************)
(* Properties of the list handlers                                         *)
(***************************************************************************)
ListDone == pc = "done" /\ tool \in ListTools

AllCallsSucceeded == \A i \in DOMAIN calls : ReplyTo(calls[i]).ok

NoRecordReturned ==
    \A i \in DOMAIN calls : ReplyTo(calls[i]).ok => ReplyTo(calls[i]).value.data = << >>

\* C7: when every upstream listing call of a list handler succeeds and no record
\* came back, the handler returns its "no results" text without the isError flag;
\* the isError flag is set only when an upstream call failed.
C7_EmptyListingIsNotAnError ==
    ListDone =>
        /\ (AllCallsSucceeded /\ NoRecordReturned) =>
              result = ToolResult(PlainText(NoResultsText(tool)))
        /\ HasIsError(result) => ~AllCallsSucceeded

C7_Witness ==
    /\ ListDone
    /\ tool = "itglue_list_document_sections"
    /\ AllCallsSucceeded
    /\ NoRecordReturned
    /\ ~HasIsError(result)
    /\ ResultText.body = <<"No sections found in this document.">>

(***************************************************************************)
(* Properties of ITGlueClient                                              *)
(***************************************************************************)
GetManyReturned == cpc = "done" /\ creq.op = "getMany" /\ cresp.ok
GetOneReturned == cpc = "done" /\ creq.op = "getOne" /\ cresp.ok

\* C8: every PaginatedResult returned by getMany has has_more = (next_page is not
\* null), whether meta is absent or next-page is absent, null or a number.
C8_HasMoreIffNextPage ==
    GetManyReturned =>
        /\ cout.ok
        /\ cout.value.has_more = (cout.value.next_page # Null)

C8_Witness ==
    /\ GetManyReturned
    /\ cresp.value.meta # Undefined
    /\ cresp.value.meta.next_page = Null
    /\ cout.value.has_more = FALSE

\* C9: getOne fails with 'Expected single resource but received array' whenever
\* the envelope's data is an array, of any length, and returns no record then; on
\* a single object it returns the decoded record.
C9_GetOneRejectsArrays ==
    GetOneReturned =>
        IF cresp.value.data.isArray
        THEN /\ ~cout.ok
             /\ cout.error.class = "Error"
             /\ cout.error.message = "Expected single resource but received array"
        ELSE /\ cout.ok
             /\ cout.value = deserializeResource(cresp.value.data.elems[1])

C9_Witness ==
    /\ GetOneReturned
    /\ cresp.value.data.isArray
    /\ Len(cresp.value.data.elems) = 1
    /\ ~cout.ok

\* C10: getMany on a single resource object returns exactly one decoded record; on
\* an array one decoded record per element in the same order; when the pagination
\* metadata is absent it returns total_count = number of elements, page_number = 1.
C10_GetManyWrapsAndDefaults ==
    GetManyReturned =>
        LET elems == cresp.value.data.elems
        IN  /\ cout.ok
            /\ ~cresp.value.data.isArray => Len(cout.value.data) = 1
            /\ Len(cout.value.data) = Len(elems)
            /\ \A i \in DOMAIN elems : cout.value.data[i] = deserializeResource(elems[i])
            /\ cresp.value.meta = Undefined =>
                  /\ cout.value.total_count = Len(elems)
                  /\ cout.value.page_number = 1

C10_Witness ==
    /\ GetManyReturned
    /\ ~cresp.value.data.isArray
    /\ cresp.value.meta = Undefined
    /\ Len(cout.value.data) = 1
    /\ cout.value.total_count = 1

(***************************************************************************)
(* The exported helpers, each applied to arguments drawn from small sets   *)
(***************************************************************************)
AttributeKeys ==
    { IdKey, TypeKey, <<"name">>, <<"a", "-", "b">>, <<"a", "_", "b">>,
      <<"a", "-", "b", "-", "c">> }

AttributeValues == {"x", "y"}

\* entries of an object: up to MaxAttributes of them, no key twice
Entries(keys, values) ==
    { es \in SeqsUpTo(keys \X values, MaxAttributes) :
        \A i, j \in DOMAIN es : i # j => es[i][1] # es[j][1] }

PureResources ==
    { Resource("7", "documents", es) : es \in Entries(AttributeKeys, AttributeValues) }

KeyTokens == {"a", "1", "-", "_"}
Keys == SeqsUpTo(KeyTokens, MaxKeyLen)

RequestKeys == { <<"name">>, <<"archived">>, <<"a", "_", "b">>, <<"a", "-", "b">> }
RequestValues == { Undefined, Null, Num(0), Bool(FALSE), Str("x") }
RequestIds == { Undefined, Str(""), Str("456") }

RECURSIVE Repeat(_, _)
\* s repeated n times
Repeat(s, n) ==
    IF n = 0 THEN ""
    ELSE IF n % 2 = 0 THEN LET half == Repeat(s, n \div 2) IN half \o half
    ELSE s \o Repeat(s, n - 1)

\* a text of n characters
TextOfLength(unit, n) == SubSeq(Repeat(unit, n), 1, n)

TextLengths == {0, 1} \cup ((CHARACTER_LIMIT - MaxOver)..(CHARACTER_LIMIT + MaxOver))
Texts == { TextOfLength(unit, n) : unit \in {"ab", "x"}, n \in TextLengths }
Hints == { Undefined, Str(""), Str("Use page_number to see more.") }
Locales == {"en-US", "de-DE", "fr-FR"}

FooterTotals == {0, 1, 50, 1000}

\* pieces of section content: text, tags the chain rewrites, tags it strips,
\* character references, and the tails of character references
HtmlFragments ==
    { "a", " x ", "<br />", "<BR>", "<p>", "</p>", "<li>", "<h2 id='t'>",
      "</b>", "<div class='c'>", "<link rel='x'>", "<a title='1>0'>",
      "&amp;", "&lt;", "&#38;", "lt;", "#60;", "b&gt;" }

RECURSIVE Joined(_, _)
\* the fragments from the i-th on, one after the other
Joined(frs, i) == IF i > Len(frs) THEN "" ELSE frs[i] \o Joined(frs, i + 1)

HtmlTexts == SeqsUpTo(HtmlFragments, MaxFragments)

\* HTTP statuses a rejected request may carry
StatusCodes == {302, 400, 401, 403, 404, 409, 415, 422, 429, 499, 500, 503, 599}

ErrorEntries ==
    { ErrorEntry(title, detail) :
        title \in {Undefined, Str("Bad Request")},
        detail \in {Undefined, Null, Str(""), Str("name is required")} }

\* response bodies: none, no errors, an empty errors array, one entry, two entries
ErrorDatas ==
    { Undefined, ErrorBody(Undefined), ErrorBody(Arr(<< >>)) }
        \cup { ErrorBody(Arr(<<e>>)) : e \in ErrorEntries }
        \cup { ErrorBody(Arr(<<e, ErrorEntry(Str("Second"), Str("second detail"))>>)) :
                 e \in ErrorEntries }

ErrorCodes == { Undefined, Str("ECONNABORTED"), Str("ECONNREFUSED"), Str("ERR_NETWORK") }

\* what a catch block may hand to handleApiError
ApiErrors ==
    { AxiosErr("Request failed", HttpResponse(Num(st), data), Str("ERR_BAD_REQUEST")) :
        st \in StatusCodes, data \in ErrorDatas }
    \cup { AxiosErr("timeout of 30000ms exceeded", HttpResponse(Num(504), Undefined),
                    Str("ECONNABORTED")) }
    \cup { AxiosErr("network failure", Undefined, code) : code \in ErrorCodes }
    \cup { PlainError("Expected single resource but received array"),
           ThrownValue("string error") }
FooterPages == {1, 2, 3}

Call(name, argument, value) ==
    /\ fn = "none"
    /\ fn' = name
    /\ arg' = argument
    /\ ret' = value
    /\ UNCHANGED <<hvars, cvars, svars>>

DeserializeResource ==
    \E r \in PureResources : Call("deserializeResource", r, deserializeResource(r))

KebabToSnake ==
    \E k \in Keys : Call("kebabToSnake", k, kebabToSnake(k))

SnakeToKebab ==
    \E k \in Keys : Call("snakeToKebab", k, snakeToKebab(k))

SerializeRequest ==
    \E attributes \in Entries(RequestKeys, RequestValues), id \in RequestIds :
        Call("serializeRequest",
             [type |-> "documents", attributes |-> attributes, id |-> id],
             serializeRequest("documents", attributes, id))

TruncateIfNeeded ==
    \E text \in Texts, hint \in Hints, locale \in Locales :
        Call("truncateIfNeeded",
             [text |-> text, hint |-> hint, locale |-> locale],
             truncateIfNeeded(text, hint, locale))

PaginationFooter ==
    \E totalCount \in FooterTotals, pageNumber \in FooterPages, hasMore \in BOOLEAN :
        Call("paginationFooter",
             [totalCount |-> totalCount, pageNumber |-> pageNumber, hasMore |-> hasMore],
             paginationFooter(totalCount, pageNumber, hasMore))

StripHtml ==
    \E frs \in HtmlTexts :
        Call("stripHtml", [html |-> Joined(frs, 1), fragments |-> frs],
             stripHtml(Joined(frs, 1)))

HandleApiError ==
    \E error \in ApiErrors : Call("handleApiError", error, handleApiError(error))

\* the caller has the value; the next call is independent of this one
PureReturn ==
    /\ fn # "none"
    /\ fn' = "none"
    /\ arg' = EmptyObject
    /\ ret' = EmptyObject
    /\ UNCHANGED <<hvars, cvars, svars>>

NextPure ==
    \/ DeserializeResource
    \/ KebabToSnake
    \/ SnakeToKebab
    \/ SerializeRequest
    \/ TruncateIfNeeded
    \/ PaginationFooter
    \/ HandleApiError
    \/ StripHtml
    \/ PureReturn

SpecPure == Init /\ [][NextPure]_vars

(***************************************************************************)
(* HTTP mode: requests to /mcp, session initialisation and shutdown        *)
(***************************************************************************)
\* app.post("/mcp") up to its return or its first await
PostMcp(sessionId, body) ==
    /\ process = "running"
    /\ LET route == PostRoute(sessionId, body, sessions)
       IN  CASE route = "transport" ->
                  /\ exchange' = Exchange("POST", sessionId, body, ByTransport,
                                          Get(sessions, sessionId.v), 0, sessions)
                  /\ UNCHANGED <<sessions, transports>>
             [] route = "notFound" ->
                  /\ exchange' = Exchange("POST", sessionId, body, SessionNotFound,
                                          0, 0, sessions)
                  /\ UNCHANGED <<sessions, transports>>
             [] route = "badRequest" ->
                  /\ exchange' = Exchange("POST", sessionId, body, ExpectedInitialize,
                                          0, 0, sessions)
                  /\ UNCHANGED <<sessions, transports>>
             [] route = "initialize" ->
                  /\ Len(transports) < MaxSessions
                  /\ transports' = Append(transports, NewTransport(sessionId, body))
                  /\ exchange' = Exchange("POST", sessionId, body, Pending, 0, 1, sessions)
                  /\ UNCHANGED sessions
    /\ UNCHANGED <<shutdowns, process, hvars, cvars, pvars>>

\* transport.handleRequest of an initialize request: the transport takes its
\* session id and calls onsessioninitialized
SessionInitialized(t) ==
    /\ process = "running"
    /\ t \in DOMAIN transports
    /\ transports[t].sessionId = Undefined
    /\ ~transports[t].closed
    /\ transports' = [transports EXCEPT ![t].sessionId = Str(randomUUID(t))]
    /\ sessions' = Set(sessions, randomUUID(t), t)
    /\ UNCHANGED <<exchange, shutdowns, process, hvars, cvars, pvars>>

\* app.get("/mcp")
GetMcp(sessionId) ==
    /\ process = "running"
    /\ IF SessionRoute(sessionId, sessions) = "notFound"
       THEN exchange' = Exchange("GET", sessionId, "none", SessionNotFound, 0, 0, sessions)
       ELSE exchange' = Exchange("GET", sessionId, "none", ByTransport,
                                 Get(sessions, sessionId.v), 0, sessions)
    /\ UNCHANGED <<sessions, transports, shutdowns, process, hvars, cvars, pvars>>

\* app.delete("/mcp"): a transport that serves the DELETE closes itself, one that
\* refuses it stays open
DeleteMcp(sessionId) ==
    /\ process = "running"
    /\ IF SessionRoute(sessionId, sessions) = "notFound"
       THEN /\ exchange' = Exchange("DELETE", sessionId, "none", SessionNotFound,
                                    0, 0, sessions)
            /\ UNCHANGED <<sessions, transports>>
       ELSE LET t == Get(sessions, sessionId.v)
            IN  \E served \in BOOLEAN :
                   LET map == IF served THEN onclose(sessions, transports[t]) ELSE sessions
                   IN  /\ sessions' = map
                       /\ transports' = IF served THEN Closed(transports, t) ELSE transports
                       /\ exchange' = Exchange("DELETE", sessionId, "none", ByTransport,
                                               t, 0, map)
    /\ UNCHANGED <<shutdowns, process, hvars, cvars, pvars>>

\* shutdown from where routine r of routines stands up to its next await: it
\* closes the transport of the next entry, or clears the map and exits
ShutdownStep(routines, r) ==
    LET next == NextEntry(sessions, routines[r].position)
    IN  IF next = 0
        THEN /\ sessions' = Clear(sessions)
             /\ process' = "exited"
             /\ shutdowns' = routines
             /\ UNCHANGED transports
        ELSE /\ transports' = Closed(transports, sessions[next].transport)
             /\ sessions' = onclose(sessions, transports[sessions[next].transport])
             /\ shutdowns' = [routines EXCEPT ![r].position = next]
             /\ UNCHANGED process

\* process.on("SIGINT", shutdown), process.on("SIGTERM", shutdown): a signal
\* starts a shutdown routine, which runs up to its first await
Signal ==
    /\ process = "running"
    /\ Len(shutdowns) < Cardinality(Signals)
    /\ ShutdownStep(Append(shutdowns, [position |-> 0, atStart |-> Held(sessions)]),
                    Len(shutdowns) + 1)
    /\ UNCHANGED <<exchange, hvars, cvars, pvars>>

\* await session.transport.close() has resolved: the routine goes on
ShutdownResumed(r) ==
    /\ process = "running"
    /\ r \in DOMAIN shutdowns
    /\ ShutdownStep(shutdowns, r)
    /\ UNCHANGED <<exchange, hvars, cvars, pvars>>

NextHttp ==
    \/ \E sessionId \in SessionIdHeaders, body \in Bodies : PostMcp(sessionId, body)
    \/ \E t \in 1..MaxSessions : SessionInitialized(t)
    \/ \E sessionId \in SessionIdHeaders : GetMcp(sessionId)
    \/ \E sessionId \in SessionIdHeaders : DeleteMcp(sessionId)
    \/ Signal
    \/ \E r \in 1..Cardinality(Signals) : ShutdownResumed(r)

SpecHttp == Init /\ [][NextHttp]_vars

\* the event loop runs the continuation of a routine whose await has resolved
SpecHttpLive == SpecHttp /\ WF_vars(\E r \in 1..Cardinality(Signals) : ShutdownResumed(r))

MutationReturned == cpc = "done" /\ creq.op \in MutationOps /\ cresp.ok
ActionReturned == cpc = "done" /\ creq.op \in ActionOps /\ cresp.ok
PageSizeProvided == creq.params # Undefined /\ PageSizeKey \in DOMAIN creq.params

\* C11: getMany returns page_size equal to the requested page[size] whenever that
\* parameter was provided, whatever the number of returned elements, and equal to
\* the element count only when no page[size] was provided.
C11_PageSizeEchoesRequest ==
    GetManyReturned =>
        /\ cout.ok
        /\ cout.value.page_size =
              IF PageSizeProvided THEN creq.params[PageSizeKey].v
              ELSE Len(cresp.value.data.elems)

\* the response shapes postAction / patchAction map to null
MapsToNull(body) ==
    \/ body = Null
    \/ body.data = Undefined
    \/ body.data = Null
    \/ (body.data.isArray /\ Len(body.data.elems) = 0)

\* C12: postAction and patchAction return null when the response body is absent,
\* when its data is null or missing, or when its data is an empty array; otherwise
\* they return the decoded first element of an array or the decoded single object;
\* they never fail on any of these response shapes.
C12_ActionsTolerateEmptyResponses ==
    ActionReturned =>
        /\ cout.ok
        /\ cout.value = IF MapsToNull(cresp.value) THEN Null
                        ELSE Obj(deserializeResource(cresp.value.data.elems[1]))

C12_Witness ==
    /\ ActionReturned
    /\ creq.op = "patchAction"
    /\ cresp.value # Null
    /\ cresp.value.data # Undefined
    /\ cresp.value.data # Null
    /\ cresp.value.data.isArray
    /\ Len(cresp.value.data.elems) = 0
    /\ cout.ok
    /\ cout.value = Null

\* C13: post and patch, on a response whose data is an empty array, fail with an
\* error that names the operation ('create' for post, 'update' for patch) and never
\* return null; on a non-empty array they return the decoded first element; on a
\* single object they return it decoded.
C13_MutationsRejectEmptyArray ==
    MutationReturned =>
        IF cresp.value.data.isArray /\ Len(cresp.value.data.elems) = 0
        THEN /\ ~cout.ok
             /\ cout.error.class = "Error"
             /\ cout.error.message =
                   IF creq.op = "post"
                   THEN "API returned empty array for create operation"
                   ELSE "API returned empty array for update operation"
        ELSE /\ cout.ok
             /\ cout.value = deserializeResource(cresp.value.data.elems[1])

C13_Witness ==
    /\ MutationReturned
    /\ creq.op = "post"
    /\ cresp.value.data.isArray
    /\ Len(cresp.value.data.elems) = 0
    /\ ~cout.ok

Called(name) == fn = name

\* every hyphen of a key replaced by an underscore
HyphensToUnderscores(k) == [i \in DOMAIN k |-> IF k[i] = "-" THEN "_" ELSE k[i]]

\* every underscore of a key replaced by a hyphen
UnderscoresToHyphens(k) == [i \in DOMAIN k |-> IF k[i] = "_" THEN "-" ELSE k[i]]

TranslatedAttributeKeys(r) ==
    { HyphensToUnderscores(r.attributes[i][1]) : i \in DOMAIN r.attributes }

KeySetIsExact ==
    DOMAIN ret = {IdKey, TypeKey} \cup TranslatedAttributeKeys(arg)

\* C14 as stated: the key set of deserializeResource(r) is exactly {id, type} and
\* the attribute keys of r with every hyphen replaced by an underscore, and each
\* attribute value is passed through unchanged under its translated key.
C14_KeysExactEveryValueKept ==
    Called("deserializeResource") =>
        /\ KeySetIsExact
        /\ \A i \in DOMAIN arg.attributes :
              ret[HyphensToUnderscores(arg.attributes[i][1])] = arg.attributes[i][2]

\* C14 amended: the key set is exactly {id, type} and the translated attribute keys;
\* an attribute value is passed through unchanged under its translated key unless a
\* later attribute of r translates to the same key, whose value is then the one kept.
C14_KeysExactLastValueKept ==
    Called("deserializeResource") =>
        /\ KeySetIsExact
        /\ \A i \in DOMAIN arg.attributes :
              (\A j \in DOMAIN arg.attributes :
                    j > i => HyphensToUnderscores(arg.attributes[j][1])
                                # HyphensToUnderscores(arg.attributes[i][1]))
              => ret[HyphensToUnderscores(arg.attributes[i][1])] = arg.attributes[i][2]

C14_Witness ==
    /\ Called("deserializeResource")
    /\ arg.attributes = << <<(<<"a", "-", "b">>), "x">>, <<(<<"a", "_", "b">>), "y">> >>
    /\ DOMAIN ret = {IdKey, TypeKey, <<"a", "_", "b">>}
    /\ ret[<<"a", "_", "b">>] = "y"

\* C15: deserializeResource(r).id = r.id and deserializeResource(r).type = r.type
\* for every attribute map r may carry.
C15_IdAndTypeAreTheResources ==
    Called("deserializeResource") =>
        /\ ret[IdKey] = arg.id
        /\ ret[TypeKey] = arg.type

Digits == {"1"}
Separators == {"-", "_"}

DigitAdjacentToSeparator(k) ==
    \E i \in 1..(Len(k) - 1) :
        \/ (k[i] \in Digits /\ k[i + 1] \in Separators)
        \/ (k[i] \in Separators /\ k[i + 1] \in Digits)

\* C16 as stated: for every key k containing no digit adjacent to a separator,
\* translating k hyphen-to-underscore and then underscore-to-hyphen yields k again.
C16_RoundTripWithoutDigitAtSeparator ==
    (Called("kebabToSnake") /\ ~DigitAdjacentToSeparator(arg)) =>
        snakeToKebab(ret) = arg

\* C16 amended: for every key k containing no underscore (digits anywhere),
\* translating k hyphen-to-underscore and then underscore-to-hyphen yields k again.
C16_RoundTripWithoutUnderscore ==
    (Called("kebabToSnake") /\ "_" \notin Range(arg)) =>
        snakeToKebab(ret) = arg

C16_Witness ==
    /\ Called("kebabToSnake")
    /\ arg = <<"-", "1", "-">>
    /\ ret = <<"_", "1", "_">>
    /\ snakeToKebab(ret) = arg

RequestAttributes == ret.data.attributes

\* C17 as stated: serializeRequest omits an attribute exactly when its value is
\* undefined; every attribute whose value is 0, false, null or any other defined
\* value is present under its underscore-to-hyphen translated key, value unchanged.
C17_OmitsExactlyUndefined ==
    Called("serializeRequest") =>
        \A i \in DOMAIN arg.attributes :
            LET key == UnderscoresToHyphens(arg.attributes[i][1])
                value == arg.attributes[i][2]
            IN  IF value = Undefined
                THEN key \notin DOMAIN RequestAttributes
                ELSE /\ key \in DOMAIN RequestAttributes
                     /\ RequestAttributes[key] = value

\* the attributes that are defined and translate to the key that attribute i does
DefinedUnderSameKey(i) ==
    { j \in DOMAIN arg.attributes :
        /\ arg.attributes[j][2] # Undefined
        /\ UnderscoresToHyphens(arg.attributes[j][1])
              = UnderscoresToHyphens(arg.attributes[i][1]) }

\* C17 amended: the body holds a translated key exactly when some attribute that
\* translates to it has a defined value (0, false and null included), and holds
\* under it, unchanged, the value of the last such attribute.
C17_OmitsUndefinedLastValueKept ==
    Called("serializeRequest") =>
        /\ DOMAIN RequestAttributes =
              { UnderscoresToHyphens(arg.attributes[i][1]) :
                    i \in { j \in DOMAIN arg.attributes : arg.attributes[j][2] # Undefined } }
        /\ \A i \in DOMAIN arg.attributes :
              LET key == UnderscoresToHyphens(arg.attributes[i][1])
              IN  IF DefinedUnderSameKey(i) = {}
                  THEN key \notin DOMAIN RequestAttributes
                  ELSE RequestAttributes[key] =
                          arg.attributes[CHOOSE j \in DefinedUnderSameKey(i) :
                                            \A l \in DefinedUnderSameKey(i) : l <= j][2]

C17_Witness ==
    /\ Called("serializeRequest")
    /\ arg.attributes = << <<(<<"a", "_", "b">>), Num(0)>>, <<(<<"archived">>), Undefined>> >>
    /\ DOMAIN RequestAttributes = { <<"a", "-", "b">> }
    /\ RequestAttributes[<<"a", "-", "b">>] = Num(0)

\* C18: the body built by serializeRequest contains an id field if and only if an
\* id argument was supplied, and then with exactly the supplied value.
C18_IdPresentIffSupplied ==
    Called("serializeRequest") =>
        /\ ("id" \in DOMAIN ret.data) = (arg.id # Undefined)
        /\ "id" \in DOMAIN ret.data => ret.data.id = arg.id

TruncationMarker == "[Response truncated"

\* s occurs in text
Contains(text, s) ==
    \E i \in 1..(Len(text) - Len(s) + 1) : SubSeq(text, i, i + Len(s) - 1) = s

\* C19: truncateIfNeeded returns text unchanged whenever its length is at most
\* CHARACTER_LIMIT (exactly CHARACTER_LIMIT included); otherwise the result is the
\* first CHARACTER_LIMIT characters of text followed by a footer that contains
\* '[Response truncated', so the result is longer than CHARACTER_LIMIT.
C19_TruncatesOnlyAboveLimit ==
    Called("truncateIfNeeded") =>
        IF Len(arg.text) <= CHARACTER_LIMIT
        THEN ret = arg.text
        ELSE /\ Len(ret) > CHARACTER_LIMIT
             /\ SubSeq(ret, 1, CHARACTER_LIMIT) = SubSeq(arg.text, 1, CHARACTER_LIMIT)
             /\ Contains(SubSeq(ret, CHARACTER_LIMIT + 1, Len(ret)), TruncationMarker)

C19_Witness ==
    /\ Called("truncateIfNeeded")
    /\ Len(arg.text) = CHARACTER_LIMIT + 1
    /\ Len(ret) > CHARACTER_LIMIT + Len(TruncationMarker)
    /\ ret # arg.text

NextPageHint(pageNumber) ==
    <<"More results available -- use page_number: ", ToString(pageNumber),
      " to see next page">>

\* C20: paginationFooter(totalCount, pageNumber, hasMore) always states the current
\* page and the total count, and contains a next-page hint naming page
\* pageNumber + 1 if and only if hasMore is true.
C20_FooterStatesPageAndHint ==
    Called("paginationFooter") =>
        /\ <<"Page ", ToString(arg.pageNumber), " | ", ToString(arg.totalCount),
             " total results">> \in Range(ret)
        /\ (NextPageHint(arg.pageNumber + 1) \in Range(ret)) = arg.hasMore
        /\ \A p \in FooterPages \cup {0, 4} :
              NextPageHint(p) \in Range(ret) => (arg.hasMore /\ p = arg.pageNumber + 1)

C20_Witness ==
    /\ Called("paginationFooter")
    /\ arg.hasMore
    /\ arg.pageNumber = 2
    /\ NextPageHint(3) \in Range(ret)

\* s begins with prefix
StartsWith(str, prefix) ==
    Len(str) >= Len(prefix) /\ SubSeq(str, 1, Len(prefix)) = prefix

CarriesResponse(error) == error.class = "AxiosError" /\ error.response # Undefined

\* C21: handleApiError maps a failure that carries an HTTP response to one kind
\* determined by the status alone: 400 Bad request, 401 Authentication failed, 403
\* Permission denied, 404 not found, 415 Unsupported media type, 422 Validation
\* failed, 429 Rate limit exceeded, every status >= 500 a server-error message
\* containing the code, every other status a generic message with 'status <code>'.
C21_KindByStatusAlone ==
    (Called("handleApiError") /\ CarriesResponse(arg)) =>
        LET status == arg.response.status.v
        IN  CASE status = 400 -> ret[1] = "Error: Bad request."
              [] status = 401 -> StartsWith(ret[1], "Error: Authentication failed.")
              [] status = 403 -> ret[1] = "Error: Permission denied."
              [] status = 404 -> StartsWith(ret[1], "Error: Resource not found.")
              [] status = 415 -> StartsWith(ret[1], "Error: Unsupported media type.")
              [] status = 422 -> ret[1] = "Error: Validation failed."
              [] status = 429 -> StartsWith(ret[1], "Error: Rate limit exceeded")
              [] OTHER ->
                   IF status >= 500
                   THEN /\ ret[1] = "Error: ITGlue server error ("
                        /\ ret[2] = ToString(status)
                   ELSE /\ ret[1] = "Error: API request failed with status "
                        /\ ret[2] = ToString(status)

C21_Witness ==
    /\ Called("handleApiError")
    /\ CarriesResponse(arg)
    /\ arg.response.status.v = 500
    /\ arg.code = Str("ERR_BAD_REQUEST")
    /\ ret = <<"Error: ITGlue server error (", "500", "). Try again later.">>

\* the errors entries of the response, none when the body or its errors are absent
ErrorsOf(error) ==
    IF error.response.data = Undefined THEN << >>
    ELSE IF error.response.data.errors = Undefined THEN << >>
    ELSE error.response.data.errors.v

\* the detail of the first errors entry, its title when the detail is absent
UpstreamDetail(error) ==
    LET first == ErrorsOf(error)[1]
    IN  IF first.detail # Undefined /\ first.detail # Null THEN first.detail ELSE first.title

\* C22: the upstream detail is the detail of the first errors entry, falling back
\* to that entry's title when detail is absent; whenever such a detail exists it
\* appears in the message for status 400 and for status 422, and when the response
\* has no errors entry the message carries no detail text.
C22_DetailOfFirstEntry ==
    (Called("handleApiError") /\ CarriesResponse(arg)) =>
        LET status == arg.response.status.v
        IN  IF Len(ErrorsOf(arg)) = 0
            THEN /\ " " \notin Range(ret)
                 /\ status = 400 =>
                       ret = <<"Error: Bad request.", " Check your parameters.">>
                 /\ status = 422 => ret = <<"Error: Validation failed.">>
            ELSE (status \in {400, 422} /\ Truthy(UpstreamDetail(arg))) =>
                    /\ ret[2] = " "
                    /\ ret[3] = UpstreamDetail(arg).v

C22_Witness ==
    /\ Called("handleApiError")
    /\ CarriesResponse(arg)
    /\ arg.response.status.v = 422
    /\ Len(ErrorsOf(arg)) = 2
    /\ ErrorsOf(arg)[1] = ErrorEntry(Str("Bad Request"), Null)
    /\ ret = <<"Error: Validation failed.", " ", "Bad Request">>

\* C23: when the failure carries no HTTP response, handleApiError returns the
\* timeout message for code ECONNABORTED, the could-not-connect message for code
\* ECONNREFUSED, and for every other thrown value an 'Unexpected error' message
\* carrying the value's message or string representation; for every input the
\* result is a string starting with 'Error:'.
C23_ConnectionAndUnexpected ==
    Called("handleApiError") =>
        /\ StartsWith(ret[1], "Error:")
        /\ ~CarriesResponse(arg) =>
              IF arg.class = "AxiosError" /\ arg.code = Str("ECONNABORTED")
              THEN ret = <<"Error: Request timed out. Please try again.">>
              ELSE IF arg.class = "AxiosError" /\ arg.code = Str("ECONNREFUSED")
              THEN ret = <<"Error: Could not connect to ITGlue API. Check your base URL and network connectivity.">>
              ELSE ret = <<"Error: Unexpected error: ", arg.message>>

C23_Witness ==
    /\ Called("handleApiError")
    /\ arg.class = "value"
    /\ ret = <<"Error: Unexpected error: ", "string error">>

\* the answer the i-th call of the running invocation got
AnswerOf(i) == IF tool \in ListTools THEN ReplyTo(calls[i]) ELSE Answer(i)

SomeCallRejected == \E i \in DOMAIN calls : ~AnswerOf(i).ok

\* the error of the first call that rejected
FirstRejection ==
    AnswerOf(CHOOSE i \in DOMAIN calls :
                 ~AnswerOf(i).ok /\ \A j \in 1..(i - 1) : AnswerOf(j).ok).error

\* C24: every tool handler returns a result and never throws: whenever an upstream
\* client call made during the invocation rejects, the handler returns content
\* whose text is handleApiError(error) together with isError = true, and an
\* invocation in which no upstream call rejects never carries isError.
C24_HandlersCatchEverything ==
    /\ pc = "await" => Len(calls) >= 1
    /\ pc = "done" =>
          /\ Len(result.content) = 1
          /\ IF SomeCallRejected
             THEN /\ HasIsError(result)
                  /\ result.isError = TRUE
                  /\ result.content[1].type = "text"
                  /\ result.content[1].text = PlainText(handleApiError(FirstRejection))
             ELSE ~HasIsError(result)

C24_Witness ==
    /\ pc = "done"
    /\ tool = "itglue_get_document"
    /\ Len(calls) = 2
    /\ Answer(1).ok
    /\ ~Answer(2).ok
    /\ HasIsError(result)

\* C25: within one tool invocation no upstream call is ever re-issued, and once an
\* upstream call has failed no further upstream call is issued: in
\* itglue_get_document a failed document fetch (getOne) means the sections fetch
\* (getMany) is never made, and the sections fetch is only ever issued after the
\* document fetch has succeeded.
C25_NoRetryNoCallAfterFailure ==
    /\ \A i, j \in DOMAIN calls :
          i < j => <<calls[i].method, calls[i].path>> # <<calls[j].method, calls[j].path>>
    /\ \A i \in DOMAIN calls : i < Len(calls) => AnswerOf(i).ok
    /\ tool = "itglue_get_document" =>
          /\ Len(calls) <= 2
          /\ Len(calls) >= 1 => calls[1].method = "getOne"
          /\ Len(calls) = 2 => (Answer(1).ok /\ calls[2].method = "getMany")
          /\ (pc = "done" /\ ~Answer(1).ok) => Len(calls) = 1

C25_Witness ==
    /\ pc = "done"
    /\ tool = "itglue_get_document"
    /\ ~Answer(1).ok
    /\ Answer(2).ok
    /\ Len(calls) = 1
    /\ HasIsError(result)

\* the fragments that are tags other than br, closing p, li and h1-h6
OtherTags == { "<p>", "</b>", "<div class='c'>", "<link rel='x'>", "<a title='1>0'>" }

\* the fragments of frs that are not in OtherTags, in their order
WithoutOtherTags(frs) == SelectSeq(frs, LAMBDA f : f \notin OtherTags)

\* C26: stripHtml removes every tag other than br, closing p, li (open/close) and
\* h1-h6 (open/close) with no replacement text: such a tag, open or close, of any
\* name, with or without attributes, contributes no characters to the output.
C26_OtherTagsLeaveNothing ==
    Called("stripHtml") =>
        ret = stripHtml(Joined(WithoutOtherTags(arg.fragments), 1))

\* the replace calls that rewrite or strip tags, and the ones that decode
TagPasses == SubSeq(Passes, 1, 7)
NewlinePasses == SubSeq(Passes, Len(Passes), Len(Passes))
EntityPasses == SubSeq(Passes, 8, Len(Passes) - 1)

\* the length of the character reference at position i; 0 if there is none
EntityLength(str, i) ==
    IF \E k \in DOMAIN EntityPasses : MatchLength(EntityPasses[k], str, i) > 0
    THEN MatchLength(EntityPasses[CHOOSE k \in DOMAIN EntityPasses :
                                     MatchLength(EntityPasses[k], str, i) > 0], str, i)
    ELSE 0

EntityText(str, i) ==
    LET pass == EntityPasses[CHOOSE k \in DOMAIN EntityPasses :
                                MatchLength(EntityPasses[k], str, i) > 0]
    IN  Replacement(pass, str, i, MatchLength(pass, str, i))

RECURSIVE DecodeOnce(_, _)
\* str from position i on with each character reference decoded, the decoded
\* text never read again
DecodeOnce(str, i) ==
    IF i > Len(str) THEN ""
    ELSE IF EntityLength(str, i) > 0
         THEN EntityText(str, i) \o DecodeOnce(str, i + EntityLength(str, i))
         ELSE Ch(str, i) \o DecodeOnce(str, i + 1)

\* C27: stripHtml decodes each character entity of its input exactly once: text
\* produced by decoding one entity is never decoded again as part of another named
\* or numeric entity (an input '&amp;lt;' renders as '&lt;'), and is never treated
\* as a tag.
C27_EntitiesDecodedOnce ==
    Called("stripHtml") =>
        ret = Trim(ApplyPasses(DecodeOnce(ApplyPasses(arg.html, TagPasses, 1), 1),
                               NewlinePasses, 1))

\* a request that bears a session id: the header is there and is not empty
BearsSessionId(e) == Truthy(e.sessionId)

\* C28: in HTTP mode a POST, GET or DELETE to /mcp bearing an mcp-session-id that
\* is not a key of the session map is answered 404 'Session not found' and leaves
\* the map as it was, creates no transport and no server and is passed to no
\* transport; a GET or DELETE with no session id is answered 404 likewise.
C28_UnknownSessionIsNotFound ==
    ( /\ exchange.method \in {"POST", "GET", "DELETE"}
      /\ \/ BearsSessionId(exchange) /\ ~exchange.known
         \/ exchange.method \in {"GET", "DELETE"} /\ ~BearsSessionId(exchange) )
    => /\ exchange.answer.status = "404"
       /\ exchange.answer.message = "Session not found"
       /\ exchange.mapUnchanged
       /\ exchange.created = 0
       /\ exchange.reached = 0

C28_Witness ==
    /\ exchange.method = "POST"
    /\ exchange.body = "initialize"
    /\ exchange.sessionId = Str("session-2")
    /\ ~exchange.known
    /\ exchange.answer = SessionNotFound
    /\ Held(sessions) = {1}
    /\ Len(transports) = 1

\* every entry of the map holds an open transport under that transport's session
\* id, a transport created for a POST without session id whose body is initialize
EntriesMatchTransports ==
    \A i \in DOMAIN sessions :
        sessions[i].live =>
            LET transport == transports[sessions[i].transport]
            IN  /\ transport.sessionId = Str(sessions[i].key)
                /\ ~transport.closed
                /\ ~transport.request.withSessionId
                /\ transport.request.initialize

\* a POST without session id whose body is not initialize: 400, nothing created
OtherBodyIsRefused ==
    ( /\ exchange.method = "POST"
      /\ ~BearsSessionId(exchange)
      /\ ~isInitializeRequest(exchange.body) )
    => /\ exchange.answer = ExpectedInitialize
       /\ exchange.created = 0
       /\ exchange.reached = 0
       /\ exchange.mapUnchanged

\* a step that adds an entry is the session-initialized callback of the transport
\* the entry holds, and a step that removes an entry closes or has closed its transport
EntriesFollowTransports ==
    /\ \A i \in DOMAIN sessions' :
          (sessions'[i].live /\ (i \notin DOMAIN sessions \/ ~sessions[i].live)) =>
              /\ sessions'[i].transport \in DOMAIN transports
              /\ transports[sessions'[i].transport].sessionId = Undefined
              /\ transports'[sessions'[i].transport].sessionId = Str(sessions'[i].key)
    /\ \A i \in DOMAIN sessions :
          (sessions[i].live /\ ~sessions'[i].live) =>
              transports'[sessions[i].transport].closed

\* C29: a session is inserted into the map only by the session-initialized
\* callback of a transport created for a POST that has no session id and an
\* initialize body (such a POST with another body is answered 400 and creates
\* nothing) and is removed when its transport closes; in every reachable state each
\* key of the map is the session id of the transport stored under it and no closed
\* transport is reachable through the map.
C29_MapHoldsOpenInitializedSessions ==
    /\ [](EntriesMatchTransports /\ OtherBodyIsRefused)
    /\ [][EntriesFollowTransports]_vars

C29_Witness ==
    /\ Len(sessions) = 2
    /\ ~sessions[1].live
    /\ sessions[2].live
    /\ transports[1].closed
    /\ transports[2].sessionId = Str("session-2")
    /\ exchange.method = "DELETE"
    /\ exchange.reached = 1
    /\ process = "running"

\* some shutdown routine has started
ShutdownStarted == Len(shutdowns) > 0

\* at exit every session that was in the map when a routine started has had its
\* transport closed, and the map is empty
ExitLeavesNothingOpen ==
    process = "exited" =>
        /\ \A r \in DOMAIN shutdowns : \A t \in shutdowns[r].atStart : transports[t].closed
        /\ Held(sessions) = {}

====
